---- MODULE Spec2Model ----
(***************************************************************************)
(* Model of the agent runtime adapter of shared/agents.py: the             *)
(* BaseClaudeAgent connect/disconnect lifecycle, the options builder,      *)
(* the query generator, process_message, the async context manager and     *)
(* the interactive loop; and of the configuration utilities the            *)
(* constructor relies on, shared/utils/config.py and validation.py.        *)
(*                                                                         *)
(* Spec runs the operations of a constructed agent, SpecInteractive the    *)
(* interactive loop, SpecConfig the constructor and the configuration      *)
(* loader in every environment, SpecValidate the configuration validator.  *)
(* SpecConcurrent interleaves two tasks on the one instance,               *)
(* SpecInteractiveFair is the interactive loop under weak fairness.        *)
(*                                                                         *)
(* Two agents built on the adapter keep state of their own: the stores of  *)
(* agents/ad-agency-pm/agent.py (SpecAgency) and the checklist and the     *)
(* results of agents/azure-compliance-checker/agent.py (SpecCompliance).   *)
(*                                                                         *)
(* One agent instance is shared by the tasks of an asyncio event loop.     *)
(* Each task runs a stack of coroutine frames; a step of the model is the  *)
(* code between two suspension points of the coroutine on top of a stack.  *)
(* The SDK client is an external collaborator: each of its awaited calls   *)
(* either returns or raises, and its response stream yields any finite     *)
(* sequence of messages.                                                   *)
(*                                                                         *)
(* Lists are objects: agent_config and the options built from it hold      *)
(* references into heap, so that two holders of one list see each other's  *)
(* appends; clients holds the client objects the same way. built, sent,   *)
(* underlying and hist record what has happened: the program's steps do    *)
(* not depend on them, and they are read only to bound a run (hist.calls,  *)
(* the length of underlying).                                              *)
(***************************************************************************)
EXTENDS Integers, Sequences, FiniteSets, TLC

\* ------------------------------------------------------------------ bounds

\* Operations a caller starts on the instance in one run.
MaxCalls == 3
\* Messages the SDK yields in one response stream.
MaxStream == 2

\* ------------------------------------------------------------------ values

Tasks == {1, 2}
\* The tasks that run in the sequential specification.
SeqTasks == {1}

\* None, for a field that holds a string or an object reference otherwise.
None == 0

Prompts == {"hi"}

\* Content blocks and messages of the SDK (agents.py imports, lines 13-24).
TextBlock(text) == [type |-> "TextBlock", text |-> text]
ToolUseBlock(name) == [type |-> "ToolUseBlock", name |-> name]
AssistantMessage(content) == [type |-> "AssistantMessage", content |-> content]
UserMessage(content) == [type |-> "UserMessage", content |-> content]

\* The messages a response stream is drawn from.
Messages ==
    { AssistantMessage(<<TextBlock("A")>>),
      AssistantMessage(<<ToolUseBlock("greet"), TextBlock("B")>>),
      UserMessage(<<TextBlock("U")>>) }

\* The static configurations (config.yaml contents) an agent is built on.
\* allowed_tools, when present, is a reference to a list on the heap.
ConfigNames == {"my-agent"}
ToolLists == { <<>>, <<"greet", "add">> }
StaticLists == { <<"Read">> }

\* ------------------------------------------------------------------ state

VARIABLES
    environ,        \* os.environ: variable name -> string
    env_file,       \* the .env file of the agent's directory: <<>> when there
                    \* is none, else <<its assignments: name -> string>>
    config,         \* self.config: what load_config() returned to __init__
    config_yaml,    \* the config.yaml of the agent's directory: <<>> when
                    \* there is none, else key -> value
    agent_config,   \* self.agent_config: mapping key -> value
    heap,           \* the list objects: reference (index) -> list of strings
    custom_tools,   \* what get_custom_tools() returns: tool names, in order
    client,         \* self.client: None or the index of a client in clients
    is_connected,   \* self.is_connected
    clients,        \* every ClaudeSDKClient constructed: its options
    built,          \* every options value get_agent_options() returned
    stack,          \* per task: the coroutine frames, innermost first
    ret,            \* per task: what the last finished callee handed back
    sent,           \* every prompt handed to client.query, in order
    underlying,     \* per task: what receive_response() has yielded to the
                    \* operation the task is in, or has just finished
    hist,           \* counters of the calls made so far
    agency,         \* the stores of an AdAgencyProjectManager: self.clients,
                    \* self.projects and self.tasks, id -> record, the JSON
                    \* files of its data directory, and the last tool call
    compliance      \* the state of an AzureComplianceAgent:
                    \* self.current_checklist and self.compliance_results,
                    \* the reports written and the last tool call

\* The state of the adapter and of the configuration utilities.
adapter == << environ, env_file, config, config_yaml, agent_config, heap, custom_tools, client, is_connected, clients,
              built, stack, ret, sent, underlying, hist >>

vars == << adapter, agency, compliance >>

\* dict.get(key, default)
ConfigGet(cfg, key, default) == IF key \in DOMAIN cfg THEN cfg[key] ELSE default

\* The response stream of a prompt before the SDK has yielded anything.
NoStream == [msgs |-> <<>>, ended |-> FALSE]

NoRet == [kind |-> "none"]
\* fn returned v; fn raised e; the generator yielded m; the generator ended.
Ok(fn, v) == [kind |-> "ok", fn |-> fn, val |-> v]
Exc(fn, e) == [kind |-> "exc", fn |-> fn, val |-> e]
\* A variant of Yield in which the generator ends at the first message it
\* receives, leaving the rest of the response in the stream.
YieldEndsStream(m) == [kind |-> "stop", fn |-> "query"]

Yield(m) == [kind |-> "yield", fn |-> "query", val |-> m]
StopAsyncIteration == [kind |-> "stop", fn |-> "query"]

Top(t) == Head(stack[t])
Running(t, fn, pc) ==
    /\ stack[t] # <<>>
    /\ Top(t).fn = fn
    /\ Top(t).pc = pc

\* The frame on top replaced by f.
SetTop(t, f) == [stack EXCEPT ![t] = <<f>> \o Tail(@)]
\* A call: the caller's frame becomes caller and the callee's frame f goes on top.
Call(t, caller, f) == [stack EXCEPT ![t] = <<f, caller>> \o Tail(@)]
\* A return or a raise: the frame on top is dropped.
Pop(t) == [stack EXCEPT ![t] = Tail(@)]

\* ------------------------------------------------------------------ options

\* create_sdk_mcp_server(name=..., version=..., tools=custom_tools)
CreateSdkMcpServer(cfg, tools) ==
    [ name |-> ConfigGet(cfg, "name", "agent-tools"),
      version |-> ConfigGet(cfg, "version", "1.0.0"),
      tools |-> tools ]

\* A variant of McpServers that registers the server whether or not there
\* are tools.
McpServersUnguarded(cfg, tools) == [agent_tools |-> CreateSdkMcpServer(cfg, tools)]

\* A variant of McpServers that registers the server under the configured
\* name.
McpServersByName(cfg, tools) ==
    IF tools # <<>>
    THEN ConfigGet(cfg, "name", "agent-tools") :> CreateSdkMcpServer(cfg, tools)
    ELSE <<>>

\* mcp_servers: empty, or the one server registered under 'agent_tools'.
McpServers(cfg, tools) ==
    IF tools # <<>>
    THEN [agent_tools |-> CreateSdkMcpServer(cfg, tools)]
    ELSE <<>>

\* f"mcp__agent_tools__{tool_obj.name}"
ToolName(tool) == "mcp__agent_tools__" \o tool

\* The loop over custom_tools: one append per tool, in tool order.
RECURSIVE AppendToolNames(_, _)
AppendToolNames(list, tools) ==
    IF tools = <<>> THEN list
    ELSE AppendToolNames(Append(list, ToolName(Head(tools))), Tail(tools))

\* allowed_tools = self.agent_config.get('allowed_tools', []): the configured
\* list object itself when the key is present, a new empty list otherwise.
AllowedToolsRef(cfg, h) == ConfigGet(cfg, "allowed_tools", Len(h) + 1)
AllowedToolsHeap(cfg, h) ==
    IF "allowed_tools" \in DOMAIN cfg THEN h ELSE Append(h, <<>>)

\* get_agent_options(): the options value returned and the heap it leaves.
\* The options hold the reference of the list that was appended to.
GetAgentOptions(cfg, h, tools) ==
    LET ref == AllowedToolsRef(cfg, h)
        h1 == AllowedToolsHeap(cfg, h)
        h2 == [h1 EXCEPT ![ref] = AppendToolNames(@, tools)]
    IN  [ heap |-> h2,
          options |-> [ allowed_tools |-> ref,
                        mcp_servers |-> McpServers(cfg, tools),
                        permission_mode |-> ConfigGet(cfg, "permission_mode", "default") ] ]

\* The record of one get_agent_options() call: the options returned, the
\* contents of the configured allowed_tools when it was called (empty when
\* the key is absent) and the contents of the options' allowed_tools when it
\* returned.
Built(cfg, h, r) ==
    [ options |-> r.options,
      configured_at_call |-> IF "allowed_tools" \in DOMAIN cfg
                             THEN h[cfg["allowed_tools"]] ELSE <<>>,
      allowed_at_return |-> r.heap[r.options.allowed_tools] ]

\* ------------------------------------------------------------------ strings

\* A Python str is the sequence of its characters. A printable ASCII
\* character, a tab, a newline, a carriage return and a form feed stand for
\* themselves; every other character is written as Python writes it in a
\* literal, by its code point: "\\x0b", "\\xe9", "\\uff11", "\\U0001f4cb".
LowerCase ==
    << "a", "b", "c", "d", "e", "f", "g", "h", "i", "j", "k", "l", "m",
       "n", "o", "p", "q", "r", "s", "t", "u", "v", "w", "x", "y", "z" >>
UpperCase ==
    << "A", "B", "C", "D", "E", "F", "G", "H", "I", "J", "K", "L", "M",
       "N", "O", "P", "Q", "R", "S", "T", "U", "V", "W", "X", "Y", "Z" >>
Digits == << "0", "1", "2", "3", "4", "5", "6", "7", "8", "9" >>

Range(seq) == { seq[i] : i \in DOMAIN seq }
IndexOf(seq, c) == CHOOSE i \in DOMAIN seq : seq[i] = c

\* The characters str.strip() takes for whitespace: those of str.isspace().
Whitespace ==
    { "\t", "\n", "\\x0b", "\f", "\r", "\\x1c", "\\x1d", "\\x1e",
      "\\x1f", " ", "\\x85", "\\xa0", "\\u1680", "\\u2000", "\\u2001", "\\u2002",
      "\\u2003", "\\u2004", "\\u2005", "\\u2006", "\\u2007", "\\u2008", "\\u2009", "\\u200a",
      "\\u2028", "\\u2029", "\\u202f", "\\u205f", "\\u3000" }

\* The characters int() takes for whitespace around a numeral: the same
\* without the four separators U+001C to U+001F.
IntWhitespace ==
    { "\t", "\n", "\\x0b", "\f", "\r", " ", "\\x85", "\\xa0",
      "\\u1680", "\\u2000", "\\u2001", "\\u2002", "\\u2003", "\\u2004", "\\u2005", "\\u2006",
      "\\u2007", "\\u2008", "\\u2009", "\\u200a", "\\u2028", "\\u2029", "\\u202f", "\\u205f",
      "\\u3000" }

\* The decimal digits int() accepts: the characters of category Nd, a row
\* of ten for each script, every row in the order 0 to 9.
DecimalDigits ==
    << << "0", "1", "2", "3", "4", "5", "6", "7", "8", "9" >>,
       << "\\u0660", "\\u0661", "\\u0662", "\\u0663", "\\u0664", "\\u0665", "\\u0666", "\\u0667", "\\u0668", "\\u0669" >>,
       << "\\u06f0", "\\u06f1", "\\u06f2", "\\u06f3", "\\u06f4", "\\u06f5", "\\u06f6", "\\u06f7", "\\u06f8", "\\u06f9" >>,
       << "\\u07c0", "\\u07c1", "\\u07c2", "\\u07c3", "\\u07c4", "\\u07c5", "\\u07c6", "\\u07c7", "\\u07c8", "\\u07c9" >>,
       << "\\u0966", "\\u0967", "\\u0968", "\\u0969", "\\u096a", "\\u096b", "\\u096c", "\\u096d", "\\u096e", "\\u096f" >>,
       << "\\u09e6", "\\u09e7", "\\u09e8", "\\u09e9", "\\u09ea", "\\u09eb", "\\u09ec", "\\u09ed", "\\u09ee", "\\u09ef" >>,
       << "\\u0a66", "\\u0a67", "\\u0a68", "\\u0a69", "\\u0a6a", "\\u0a6b", "\\u0a6c", "\\u0a6d", "\\u0a6e", "\\u0a6f" >>,
       << "\\u0ae6", "\\u0ae7", "\\u0ae8", "\\u0ae9", "\\u0aea", "\\u0aeb", "\\u0aec", "\\u0aed", "\\u0aee", "\\u0aef" >>,
       << "\\u0b66", "\\u0b67", "\\u0b68", "\\u0b69", "\\u0b6a", "\\u0b6b", "\\u0b6c", "\\u0b6d", "\\u0b6e", "\\u0b6f" >>,
       << "\\u0be6", "\\u0be7", "\\u0be8", "\\u0be9", "\\u0bea", "\\u0beb", "\\u0bec", "\\u0bed", "\\u0bee", "\\u0bef" >>,
       << "\\u0c66", "\\u0c67", "\\u0c68", "\\u0c69", "\\u0c6a", "\\u0c6b", "\\u0c6c", "\\u0c6d", "\\u0c6e", "\\u0c6f" >>,
       << "\\u0ce6", "\\u0ce7", "\\u0ce8", "\\u0ce9", "\\u0cea", "\\u0ceb", "\\u0cec", "\\u0ced", "\\u0cee", "\\u0cef" >>,
       << "\\u0d66", "\\u0d67", "\\u0d68", "\\u0d69", "\\u0d6a", "\\u0d6b", "\\u0d6c", "\\u0d6d", "\\u0d6e", "\\u0d6f" >>,
       << "\\u0de6", "\\u0de7", "\\u0de8", "\\u0de9", "\\u0dea", "\\u0deb", "\\u0dec", "\\u0ded", "\\u0dee", "\\u0def" >>,
       << "\\u0e50", "\\u0e51", "\\u0e52", "\\u0e53", "\\u0e54", "\\u0e55", "\\u0e56", "\\u0e57", "\\u0e58", "\\u0e59" >>,
       << "\\u0ed0", "\\u0ed1", "\\u0ed2", "\\u0ed3", "\\u0ed4", "\\u0ed5", "\\u0ed6", "\\u0ed7", "\\u0ed8", "\\u0ed9" >>,
       << "\\u0f20", "\\u0f21", "\\u0f22", "\\u0f23", "\\u0f24", "\\u0f25", "\\u0f26", "\\u0f27", "\\u0f28", "\\u0f29" >>,
       << "\\u1040", "\\u1041", "\\u1042", "\\u1043", "\\u1044", "\\u1045", "\\u1046", "\\u1047", "\\u1048", "\\u1049" >>,
       << "\\u1090", "\\u1091", "\\u1092", "\\u1093", "\\u1094", "\\u1095", "\\u1096", "\\u1097", "\\u1098", "\\u1099" >>,
       << "\\u17e0", "\\u17e1", "\\u17e2", "\\u17e3", "\\u17e4", "\\u17e5", "\\u17e6", "\\u17e7", "\\u17e8", "\\u17e9" >>,
       << "\\u1810", "\\u1811", "\\u1812", "\\u1813", "\\u1814", "\\u1815", "\\u1816", "\\u1817", "\\u1818", "\\u1819" >>,
       << "\\u1946", "\\u1947", "\\u1948", "\\u1949", "\\u194a", "\\u194b", "\\u194c", "\\u194d", "\\u194e", "\\u194f" >>,
       << "\\u19d0", "\\u19d1", "\\u19d2", "\\u19d3", "\\u19d4", "\\u19d5", "\\u19d6", "\\u19d7", "\\u19d8", "\\u19d9" >>,
       << "\\u1a80", "\\u1a81", "\\u1a82", "\\u1a83", "\\u1a84", "\\u1a85", "\\u1a86", "\\u1a87", "\\u1a88", "\\u1a89" >>,
       << "\\u1a90", "\\u1a91", "\\u1a92", "\\u1a93", "\\u1a94", "\\u1a95", "\\u1a96", "\\u1a97", "\\u1a98", "\\u1a99" >>,
       << "\\u1b50", "\\u1b51", "\\u1b52", "\\u1b53", "\\u1b54", "\\u1b55", "\\u1b56", "\\u1b57", "\\u1b58", "\\u1b59" >>,
       << "\\u1bb0", "\\u1bb1", "\\u1bb2", "\\u1bb3", "\\u1bb4", "\\u1bb5", "\\u1bb6", "\\u1bb7", "\\u1bb8", "\\u1bb9" >>,
       << "\\u1c40", "\\u1c41", "\\u1c42", "\\u1c43", "\\u1c44", "\\u1c45", "\\u1c46", "\\u1c47", "\\u1c48", "\\u1c49" >>,
       << "\\u1c50", "\\u1c51", "\\u1c52", "\\u1c53", "\\u1c54", "\\u1c55", "\\u1c56", "\\u1c57", "\\u1c58", "\\u1c59" >>,
       << "\\ua620", "\\ua621", "\\ua622", "\\ua623", "\\ua624", "\\ua625", "\\ua626", "\\ua627", "\\ua628", "\\ua629" >>,
       << "\\ua8d0", "\\ua8d1", "\\ua8d2", "\\ua8d3", "\\ua8d4", "\\ua8d5", "\\ua8d6", "\\ua8d7", "\\ua8d8", "\\ua8d9" >>,
       << "\\ua900", "\\ua901", "\\ua902", "\\ua903", "\\ua904", "\\ua905", "\\ua906", "\\ua907", "\\ua908", "\\ua909" >>,
       << "\\ua9d0", "\\ua9d1", "\\ua9d2", "\\ua9d3", "\\ua9d4", "\\ua9d5", "\\ua9d6", "\\ua9d7", "\\ua9d8", "\\ua9d9" >>,
       << "\\ua9f0", "\\ua9f1", "\\ua9f2", "\\ua9f3", "\\ua9f4", "\\ua9f5", "\\ua9f6", "\\ua9f7", "\\ua9f8", "\\ua9f9" >>,
       << "\\uaa50", "\\uaa51", "\\uaa52", "\\uaa53", "\\uaa54", "\\uaa55", "\\uaa56", "\\uaa57", "\\uaa58", "\\uaa59" >>,
       << "\\uabf0", "\\uabf1", "\\uabf2", "\\uabf3", "\\uabf4", "\\uabf5", "\\uabf6", "\\uabf7", "\\uabf8", "\\uabf9" >>,
       << "\\uff10", "\\uff11", "\\uff12", "\\uff13", "\\uff14", "\\uff15", "\\uff16", "\\uff17", "\\uff18", "\\uff19" >>,
       << "\\U000104a0", "\\U000104a1", "\\U000104a2", "\\U000104a3", "\\U000104a4", "\\U000104a5", "\\U000104a6", "\\U000104a7", "\\U000104a8", "\\U000104a9" >>,
       << "\\U00010d30", "\\U00010d31", "\\U00010d32", "\\U00010d33", "\\U00010d34", "\\U00010d35", "\\U00010d36", "\\U00010d37", "\\U00010d38", "\\U00010d39" >>,
       << "\\U00011066", "\\U00011067", "\\U00011068", "\\U00011069", "\\U0001106a", "\\U0001106b", "\\U0001106c", "\\U0001106d", "\\U0001106e", "\\U0001106f" >>,
       << "\\U000110f0", "\\U000110f1", "\\U000110f2", "\\U000110f3", "\\U000110f4", "\\U000110f5", "\\U000110f6", "\\U000110f7", "\\U000110f8", "\\U000110f9" >>,
       << "\\U00011136", "\\U00011137", "\\U00011138", "\\U00011139", "\\U0001113a", "\\U0001113b", "\\U0001113c", "\\U0001113d", "\\U0001113e", "\\U0001113f" >>,
       << "\\U000111d0", "\\U000111d1", "\\U000111d2", "\\U000111d3", "\\U000111d4", "\\U000111d5", "\\U000111d6", "\\U000111d7", "\\U000111d8", "\\U000111d9" >>,
       << "\\U000112f0", "\\U000112f1", "\\U000112f2", "\\U000112f3", "\\U000112f4", "\\U000112f5", "\\U000112f6", "\\U000112f7", "\\U000112f8", "\\U000112f9" >>,
       << "\\U00011450", "\\U00011451", "\\U00011452", "\\U00011453", "\\U00011454", "\\U00011455", "\\U00011456", "\\U00011457", "\\U00011458", "\\U00011459" >>,
       << "\\U000114d0", "\\U000114d1", "\\U000114d2", "\\U000114d3", "\\U000114d4", "\\U000114d5", "\\U000114d6", "\\U000114d7", "\\U000114d8", "\\U000114d9" >>,
       << "\\U00011650", "\\U00011651", "\\U00011652", "\\U00011653", "\\U00011654", "\\U00011655", "\\U00011656", "\\U00011657", "\\U00011658", "\\U00011659" >>,
       << "\\U000116c0", "\\U000116c1", "\\U000116c2", "\\U000116c3", "\\U000116c4", "\\U000116c5", "\\U000116c6", "\\U000116c7", "\\U000116c8", "\\U000116c9" >>,
       << "\\U00011730", "\\U00011731", "\\U00011732", "\\U00011733", "\\U00011734", "\\U00011735", "\\U00011736", "\\U00011737", "\\U00011738", "\\U00011739" >>,
       << "\\U000118e0", "\\U000118e1", "\\U000118e2", "\\U000118e3", "\\U000118e4", "\\U000118e5", "\\U000118e6", "\\U000118e7", "\\U000118e8", "\\U000118e9" >>,
       << "\\U00011950", "\\U00011951", "\\U00011952", "\\U00011953", "\\U00011954", "\\U00011955", "\\U00011956", "\\U00011957", "\\U00011958", "\\U00011959" >>,
       << "\\U00011c50", "\\U00011c51", "\\U00011c52", "\\U00011c53", "\\U00011c54", "\\U00011c55", "\\U00011c56", "\\U00011c57", "\\U00011c58", "\\U00011c59" >>,
       << "\\U00011d50", "\\U00011d51", "\\U00011d52", "\\U00011d53", "\\U00011d54", "\\U00011d55", "\\U00011d56", "\\U00011d57", "\\U00011d58", "\\U00011d59" >>,
       << "\\U00011da0", "\\U00011da1", "\\U00011da2", "\\U00011da3", "\\U00011da4", "\\U00011da5", "\\U00011da6", "\\U00011da7", "\\U00011da8", "\\U00011da9" >>,
       << "\\U00016a60", "\\U00016a61", "\\U00016a62", "\\U00016a63", "\\U00016a64", "\\U00016a65", "\\U00016a66", "\\U00016a67", "\\U00016a68", "\\U00016a69" >>,
       << "\\U00016ac0", "\\U00016ac1", "\\U00016ac2", "\\U00016ac3", "\\U00016ac4", "\\U00016ac5", "\\U00016ac6", "\\U00016ac7", "\\U00016ac8", "\\U00016ac9" >>,
       << "\\U00016b50", "\\U00016b51", "\\U00016b52", "\\U00016b53", "\\U00016b54", "\\U00016b55", "\\U00016b56", "\\U00016b57", "\\U00016b58", "\\U00016b59" >>,
       << "\\U0001d7ce", "\\U0001d7cf", "\\U0001d7d0", "\\U0001d7d1", "\\U0001d7d2", "\\U0001d7d3", "\\U0001d7d4", "\\U0001d7d5", "\\U0001d7d6", "\\U0001d7d7" >>,
       << "\\U0001d7d8", "\\U0001d7d9", "\\U0001d7da", "\\U0001d7db", "\\U0001d7dc", "\\U0001d7dd", "\\U0001d7de", "\\U0001d7df", "\\U0001d7e0", "\\U0001d7e1" >>,
       << "\\U0001d7e2", "\\U0001d7e3", "\\U0001d7e4", "\\U0001d7e5", "\\U0001d7e6", "\\U0001d7e7", "\\U0001d7e8", "\\U0001d7e9", "\\U0001d7ea", "\\U0001d7eb" >>,
       << "\\U0001d7ec", "\\U0001d7ed", "\\U0001d7ee", "\\U0001d7ef", "\\U0001d7f0", "\\U0001d7f1", "\\U0001d7f2", "\\U0001d7f3", "\\U0001d7f4", "\\U0001d7f5" >>,
       << "\\U0001d7f6", "\\U0001d7f7", "\\U0001d7f8", "\\U0001d7f9", "\\U0001d7fa", "\\U0001d7fb", "\\U0001d7fc", "\\U0001d7fd", "\\U0001d7fe", "\\U0001d7ff" >>,
       << "\\U0001e140", "\\U0001e141", "\\U0001e142", "\\U0001e143", "\\U0001e144", "\\U0001e145", "\\U0001e146", "\\U0001e147", "\\U0001e148", "\\U0001e149" >>,
       << "\\U0001e2f0", "\\U0001e2f1", "\\U0001e2f2", "\\U0001e2f3", "\\U0001e2f4", "\\U0001e2f5", "\\U0001e2f6", "\\U0001e2f7", "\\U0001e2f8", "\\U0001e2f9" >>,
       << "\\U0001e950", "\\U0001e951", "\\U0001e952", "\\U0001e953", "\\U0001e954", "\\U0001e955", "\\U0001e956", "\\U0001e957", "\\U0001e958", "\\U0001e959" >>,
       << "\\U0001fbf0", "\\U0001fbf1", "\\U0001fbf2", "\\U0001fbf3", "\\U0001fbf4", "\\U0001fbf5", "\\U0001fbf6", "\\U0001fbf7", "\\U0001fbf8", "\\U0001fbf9" >> >>

\* The characters str.lower() changes, in code point order, and what it
\* makes of each: one character, and two for U+0130.
Cased ==
    << "A", "B", "C", "D", "E", "F", "G", "H",
       "I", "J", "K", "L", "M", "N", "O", "P",
       "Q", "R", "S", "T", "U", "V", "W", "X",
       "Y", "Z", "\\xc0", "\\xc1", "\\xc2", "\\xc3", "\\xc4", "\\xc5",
       "\\xc6", "\\xc7", "\\xc8", "\\xc9", "\\xca", "\\xcb", "\\xcc", "\\xcd",
       "\\xce", "\\xcf", "\\xd0", "\\xd1", "\\xd2", "\\xd3", "\\xd4", "\\xd5",
       "\\xd6", "\\xd8", "\\xd9", "\\xda", "\\xdb", "\\xdc", "\\xdd", "\\xde",
       "\\u0100", "\\u0102", "\\u0104", "\\u0106", "\\u0108", "\\u010a", "\\u010c", "\\u010e",
       "\\u0110", "\\u0112", "\\u0114", "\\u0116", "\\u0118", "\\u011a", "\\u011c", "\\u011e",
       "\\u0120", "\\u0122", "\\u0124", "\\u0126", "\\u0128", "\\u012a", "\\u012c", "\\u012e",
       "\\u0130", "\\u0132", "\\u0134", "\\u0136", "\\u0139", "\\u013b", "\\u013d", "\\u013f",
       "\\u0141", "\\u0143", "\\u0145", "\\u0147", "\\u014a", "\\u014c", "\\u014e", "\\u0150",
       "\\u0152", "\\u0154", "\\u0156", "\\u0158", "\\u015a", "\\u015c", "\\u015e", "\\u0160",
       "\\u0162", "\\u0164", "\\u0166", "\\u0168", "\\u016a", "\\u016c", "\\u016e", "\\u0170",
       "\\u0172", "\\u0174", "\\u0176", "\\u0178", "\\u0179", "\\u017b", "\\u017d", "\\u0181",
       "\\u0182", "\\u0184", "\\u0186", "\\u0187", "\\u0189", "\\u018a", "\\u018b", "\\u018e",
       "\\u018f", "\\u0190", "\\u0191", "\\u0193", "\\u0194", "\\u0196", "\\u0197", "\\u0198",
       "\\u019c", "\\u019d", "\\u019f", "\\u01a0", "\\u01a2", "\\u01a4", "\\u01a6", "\\u01a7",
       "\\u01a9", "\\u01ac", "\\u01ae", "\\u01af", "\\u01b1", "\\u01b2", "\\u01b3", "\\u01b5",
       "\\u01b7", "\\u01b8", "\\u01bc", "\\u01c4", "\\u01c5", "\\u01c7", "\\u01c8", "\\u01ca",
       "\\u01cb", "\\u01cd", "\\u01cf", "\\u01d1", "\\u01d3", "\\u01d5", "\\u01d7", "\\u01d9",
       "\\u01db", "\\u01de", "\\u01e0", "\\u01e2", "\\u01e4", "\\u01e6", "\\u01e8", "\\u01ea",
       "\\u01ec", "\\u01ee", "\\u01f1", "\\u01f2", "\\u01f4", "\\u01f6", "\\u01f7", "\\u01f8",
       "\\u01fa", "\\u01fc", "\\u01fe", "\\u0200", "\\u0202", "\\u0204", "\\u0206", "\\u0208",
       "\\u020a", "\\u020c", "\\u020e", "\\u0210", "\\u0212", "\\u0214", "\\u0216", "\\u0218",
       "\\u021a", "\\u021c", "\\u021e", "\\u0220", "\\u0222", "\\u0224", "\\u0226", "\\u0228",
       "\\u022a", "\\u022c", "\\u022e", "\\u0230", "\\u0232", "\\u023a", "\\u023b", "\\u023d",
       "\\u023e", "\\u0241", "\\u0243", "\\u0244", "\\u0245", "\\u0246", "\\u0248", "\\u024a",
       "\\u024c", "\\u024e", "\\u0370", "\\u0372", "\\u0376", "\\u037f", "\\u0386", "\\u0388",
       "\\u0389", "\\u038a", "\\u038c", "\\u038e", "\\u038f", "\\u0391", "\\u0392", "\\u0393",
       "\\u0394", "\\u0395", "\\u0396", "\\u0397", "\\u0398", "\\u0399", "\\u039a", "\\u039b",
       "\\u039c", "\\u039d", "\\u039e", "\\u039f", "\\u03a0", "\\u03a1", "\\u03a3", "\\u03a4",
       "\\u03a5", "\\u03a6", "\\u03a7", "\\u03a8", "\\u03a9", "\\u03aa", "\\u03ab", "\\u03cf",
       "\\u03d8", "\\u03da", "\\u03dc", "\\u03de", "\\u03e0", "\\u03e2", "\\u03e4", "\\u03e6",
       "\\u03e8", "\\u03ea", "\\u03ec", "\\u03ee", "\\u03f4", "\\u03f7", "\\u03f9", "\\u03fa",
       "\\u03fd", "\\u03fe", "\\u03ff", "\\u0400", "\\u0401", "\\u0402", "\\u0403", "\\u0404",
       "\\u0405", "\\u0406", "\\u0407", "\\u0408", "\\u0409", "\\u040a", "\\u040b", "\\u040c",
       "\\u040d", "\\u040e", "\\u040f", "\\u0410", "\\u0411", "\\u0412", "\\u0413", "\\u0414",
       "\\u0415", "\\u0416", "\\u0417", "\\u0418", "\\u0419", "\\u041a", "\\u041b", "\\u041c",
       "\\u041d", "\\u041e", "\\u041f", "\\u0420", "\\u0421", "\\u0422", "\\u0423", "\\u0424",
       "\\u0425", "\\u0426", "\\u0427", "\\u0428", "\\u0429", "\\u042a", "\\u042b", "\\u042c",
       "\\u042d", "\\u042e", "\\u042f", "\\u0460", "\\u0462", "\\u0464", "\\u0466", "\\u0468",
       "\\u046a", "\\u046c", "\\u046e", "\\u0470", "\\u0472", "\\u0474", "\\u0476", "\\u0478",
       "\\u047a", "\\u047c", "\\u047e", "\\u0480", "\\u048a", "\\u048c", "\\u048e", "\\u0490",
       "\\u0492", "\\u0494", "\\u0496", "\\u0498", "\\u049a", "\\u049c", "\\u049e", "\\u04a0",
       "\\u04a2", "\\u04a4", "\\u04a6", "\\u04a8", "\\u04aa", "\\u04ac", "\\u04ae", "\\u04b0",
       "\\u04b2", "\\u04b4", "\\u04b6", "\\u04b8", "\\u04ba", "\\u04bc", "\\u04be", "\\u04c0",
       "\\u04c1", "\\u04c3", "\\u04c5", "\\u04c7", "\\u04c9", "\\u04cb", "\\u04cd", "\\u04d0",
       "\\u04d2", "\\u04d4", "\\u04d6", "\\u04d8", "\\u04da", "\\u04dc", "\\u04de", "\\u04e0",
       "\\u04e2", "\\u04e4", "\\u04e6", "\\u04e8", "\\u04ea", "\\u04ec", "\\u04ee", "\\u04f0",
       "\\u04f2", "\\u04f4", "\\u04f6", "\\u04f8", "\\u04fa", "\\u04fc", "\\u04fe", "\\u0500",
       "\\u0502", "\\u0504", "\\u0506", "\\u0508", "\\u050a", "\\u050c", "\\u050e", "\\u0510",
       "\\u0512", "\\u0514", "\\u0516", "\\u0518", "\\u051a", "\\u051c", "\\u051e", "\\u0520",
       "\\u0522", "\\u0524", "\\u0526", "\\u0528", "\\u052a", "\\u052c", "\\u052e", "\\u0531",
       "\\u0532", "\\u0533", "\\u0534", "\\u0535", "\\u0536", "\\u0537", "\\u0538", "\\u0539",
       "\\u053a", "\\u053b", "\\u053c", "\\u053d", "\\u053e", "\\u053f", "\\u0540", "\\u0541",
       "\\u0542", "\\u0543", "\\u0544", "\\u0545", "\\u0546", "\\u0547", "\\u0548", "\\u0549",
       "\\u054a", "\\u054b", "\\u054c", "\\u054d", "\\u054e", "\\u054f", "\\u0550", "\\u0551",
       "\\u0552", "\\u0553", "\\u0554", "\\u0555", "\\u0556", "\\u10a0", "\\u10a1", "\\u10a2",
       "\\u10a3", "\\u10a4", "\\u10a5", "\\u10a6", "\\u10a7", "\\u10a8", "\\u10a9", "\\u10aa",
       "\\u10ab", "\\u10ac", "\\u10ad", "\\u10ae", "\\u10af", "\\u10b0", "\\u10b1", "\\u10b2",
       "\\u10b3", "\\u10b4", "\\u10b5", "\\u10b6", "\\u10b7", "\\u10b8", "\\u10b9", "\\u10ba",
       "\\u10bb", "\\u10bc", "\\u10bd", "\\u10be", "\\u10bf", "\\u10c0", "\\u10c1", "\\u10c2",
       "\\u10c3", "\\u10c4", "\\u10c5", "\\u10c7", "\\u10cd", "\\u13a0", "\\u13a1", "\\u13a2",
       "\\u13a3", "\\u13a4", "\\u13a5", "\\u13a6", "\\u13a7", "\\u13a8", "\\u13a9", "\\u13aa",
       "\\u13ab", "\\u13ac", "\\u13ad", "\\u13ae", "\\u13af", "\\u13b0", "\\u13b1", "\\u13b2",
       "\\u13b3", "\\u13b4", "\\u13b5", "\\u13b6", "\\u13b7", "\\u13b8", "\\u13b9", "\\u13ba",
       "\\u13bb", "\\u13bc", "\\u13bd", "\\u13be", "\\u13bf", "\\u13c0", "\\u13c1", "\\u13c2",
       "\\u13c3", "\\u13c4", "\\u13c5", "\\u13c6", "\\u13c7", "\\u13c8", "\\u13c9", "\\u13ca",
       "\\u13cb", "\\u13cc", "\\u13cd", "\\u13ce", "\\u13cf", "\\u13d0", "\\u13d1", "\\u13d2",
       "\\u13d3", "\\u13d4", "\\u13d5", "\\u13d6", "\\u13d7", "\\u13d8", "\\u13d9", "\\u13da",
       "\\u13db", "\\u13dc", "\\u13dd", "\\u13de", "\\u13df", "\\u13e0", "\\u13e1", "\\u13e2",
       "\\u13e3", "\\u13e4", "\\u13e5", "\\u13e6", "\\u13e7", "\\u13e8", "\\u13e9", "\\u13ea",
       "\\u13eb", "\\u13ec", "\\u13ed", "\\u13ee", "\\u13ef", "\\u13f0", "\\u13f1", "\\u13f2",
       "\\u13f3", "\\u13f4", "\\u13f5", "\\u1c90", "\\u1c91", "\\u1c92", "\\u1c93", "\\u1c94",
       "\\u1c95", "\\u1c96", "\\u1c97", "\\u1c98", "\\u1c99", "\\u1c9a", "\\u1c9b", "\\u1c9c",
       "\\u1c9d", "\\u1c9e", "\\u1c9f", "\\u1ca0", "\\u1ca1", "\\u1ca2", "\\u1ca3", "\\u1ca4",
       "\\u1ca5", "\\u1ca6", "\\u1ca7", "\\u1ca8", "\\u1ca9", "\\u1caa", "\\u1cab", "\\u1cac",
       "\\u1cad", "\\u1cae", "\\u1caf", "\\u1cb0", "\\u1cb1", "\\u1cb2", "\\u1cb3", "\\u1cb4",
       "\\u1cb5", "\\u1cb6", "\\u1cb7", "\\u1cb8", "\\u1cb9", "\\u1cba", "\\u1cbd", "\\u1cbe",
       "\\u1cbf", "\\u1e00", "\\u1e02", "\\u1e04", "\\u1e06", "\\u1e08", "\\u1e0a", "\\u1e0c",
       "\\u1e0e", "\\u1e10", "\\u1e12", "\\u1e14", "\\u1e16", "\\u1e18", "\\u1e1a", "\\u1e1c",
       "\\u1e1e", "\\u1e20", "\\u1e22", "\\u1e24", "\\u1e26", "\\u1e28", "\\u1e2a", "\\u1e2c",
       "\\u1e2e", "\\u1e30", "\\u1e32", "\\u1e34", "\\u1e36", "\\u1e38", "\\u1e3a", "\\u1e3c",
       "\\u1e3e", "\\u1e40", "\\u1e42", "\\u1e44", "\\u1e46", "\\u1e48", "\\u1e4a", "\\u1e4c",
       "\\u1e4e", "\\u1e50", "\\u1e52", "\\u1e54", "\\u1e56", "\\u1e58", "\\u1e5a", "\\u1e5c",
       "\\u1e5e", "\\u1e60", "\\u1e62", "\\u1e64", "\\u1e66", "\\u1e68", "\\u1e6a", "\\u1e6c",
       "\\u1e6e", "\\u1e70", "\\u1e72", "\\u1e74", "\\u1e76", "\\u1e78", "\\u1e7a", "\\u1e7c",
       "\\u1e7e", "\\u1e80", "\\u1e82", "\\u1e84", "\\u1e86", "\\u1e88", "\\u1e8a", "\\u1e8c",
       "\\u1e8e", "\\u1e90", "\\u1e92", "\\u1e94", "\\u1e9e", "\\u1ea0", "\\u1ea2", "\\u1ea4",
       "\\u1ea6", "\\u1ea8", "\\u1eaa", "\\u1eac", "\\u1eae", "\\u1eb0", "\\u1eb2", "\\u1eb4",
       "\\u1eb6", "\\u1eb8", "\\u1eba", "\\u1ebc", "\\u1ebe", "\\u1ec0", "\\u1ec2", "\\u1ec4",
       "\\u1ec6", "\\u1ec8", "\\u1eca", "\\u1ecc", "\\u1ece", "\\u1ed0", "\\u1ed2", "\\u1ed4",
       "\\u1ed6", "\\u1ed8", "\\u1eda", "\\u1edc", "\\u1ede", "\\u1ee0", "\\u1ee2", "\\u1ee4",
       "\\u1ee6", "\\u1ee8", "\\u1eea", "\\u1eec", "\\u1eee", "\\u1ef0", "\\u1ef2", "\\u1ef4",
       "\\u1ef6", "\\u1ef8", "\\u1efa", "\\u1efc", "\\u1efe", "\\u1f08", "\\u1f09", "\\u1f0a",
       "\\u1f0b", "\\u1f0c", "\\u1f0d", "\\u1f0e", "\\u1f0f", "\\u1f18", "\\u1f19", "\\u1f1a",
       "\\u1f1b", "\\u1f1c", "\\u1f1d", "\\u1f28", "\\u1f29", "\\u1f2a", "\\u1f2b", "\\u1f2c",
       "\\u1f2d", "\\u1f2e", "\\u1f2f", "\\u1f38", "\\u1f39", "\\u1f3a", "\\u1f3b", "\\u1f3c",
       "\\u1f3d", "\\u1f3e", "\\u1f3f", "\\u1f48", "\\u1f49", "\\u1f4a", "\\u1f4b", "\\u1f4c",
       "\\u1f4d", "\\u1f59", "\\u1f5b", "\\u1f5d", "\\u1f5f", "\\u1f68", "\\u1f69", "\\u1f6a",
       "\\u1f6b", "\\u1f6c", "\\u1f6d", "\\u1f6e", "\\u1f6f", "\\u1f88", "\\u1f89", "\\u1f8a",
       "\\u1f8b", "\\u1f8c", "\\u1f8d", "\\u1f8e", "\\u1f8f", "\\u1f98", "\\u1f99", "\\u1f9a",
       "\\u1f9b", "\\u1f9c", "\\u1f9d", "\\u1f9e", "\\u1f9f", "\\u1fa8", "\\u1fa9", "\\u1faa",
       "\\u1fab", "\\u1fac", "\\u1fad", "\\u1fae", "\\u1faf", "\\u1fb8", "\\u1fb9", "\\u1fba",
       "\\u1fbb", "\\u1fbc", "\\u1fc8", "\\u1fc9", "\\u1fca", "\\u1fcb", "\\u1fcc", "\\u1fd8",
       "\\u1fd9", "\\u1fda", "\\u1fdb", "\\u1fe8", "\\u1fe9", "\\u1fea", "\\u1feb", "\\u1fec",
       "\\u1ff8", "\\u1ff9", "\\u1ffa", "\\u1ffb", "\\u1ffc", "\\u2126", "\\u212a", "\\u212b",
       "\\u2132", "\\u2160", "\\u2161", "\\u2162", "\\u2163", "\\u2164", "\\u2165", "\\u2166",
       "\\u2167", "\\u2168", "\\u2169", "\\u216a", "\\u216b", "\\u216c", "\\u216d", "\\u216e",
       "\\u216f", "\\u2183", "\\u24b6", "\\u24b7", "\\u24b8", "\\u24b9", "\\u24ba", "\\u24bb",
       "\\u24bc", "\\u24bd", "\\u24be", "\\u24bf", "\\u24c0", "\\u24c1", "\\u24c2", "\\u24c3",
       "\\u24c4", "\\u24c5", "\\u24c6", "\\u24c7", "\\u24c8", "\\u24c9", "\\u24ca", "\\u24cb",
       "\\u24cc", "\\u24cd", "\\u24ce", "\\u24cf", "\\u2c00", "\\u2c01", "\\u2c02", "\\u2c03",
       "\\u2c04", "\\u2c05", "\\u2c06", "\\u2c07", "\\u2c08", "\\u2c09", "\\u2c0a", "\\u2c0b",
       "\\u2c0c", "\\u2c0d", "\\u2c0e", "\\u2c0f", "\\u2c10", "\\u2c11", "\\u2c12", "\\u2c13",
       "\\u2c14", "\\u2c15", "\\u2c16", "\\u2c17", "\\u2c18", "\\u2c19", "\\u2c1a", "\\u2c1b",
       "\\u2c1c", "\\u2c1d", "\\u2c1e", "\\u2c1f", "\\u2c20", "\\u2c21", "\\u2c22", "\\u2c23",
       "\\u2c24", "\\u2c25", "\\u2c26", "\\u2c27", "\\u2c28", "\\u2c29", "\\u2c2a", "\\u2c2b",
       "\\u2c2c", "\\u2c2d", "\\u2c2e", "\\u2c2f", "\\u2c60", "\\u2c62", "\\u2c63", "\\u2c64",
       "\\u2c67", "\\u2c69", "\\u2c6b", "\\u2c6d", "\\u2c6e", "\\u2c6f", "\\u2c70", "\\u2c72",
       "\\u2c75", "\\u2c7e", "\\u2c7f", "\\u2c80", "\\u2c82", "\\u2c84", "\\u2c86", "\\u2c88",
       "\\u2c8a", "\\u2c8c", "\\u2c8e", "\\u2c90", "\\u2c92", "\\u2c94", "\\u2c96", "\\u2c98",
       "\\u2c9a", "\\u2c9c", "\\u2c9e", "\\u2ca0", "\\u2ca2", "\\u2ca4", "\\u2ca6", "\\u2ca8",
       "\\u2caa", "\\u2cac", "\\u2cae", "\\u2cb0", "\\u2cb2", "\\u2cb4", "\\u2cb6", "\\u2cb8",
       "\\u2cba", "\\u2cbc", "\\u2cbe", "\\u2cc0", "\\u2cc2", "\\u2cc4", "\\u2cc6", "\\u2cc8",
       "\\u2cca", "\\u2ccc", "\\u2cce", "\\u2cd0", "\\u2cd2", "\\u2cd4", "\\u2cd6", "\\u2cd8",
       "\\u2cda", "\\u2cdc", "\\u2cde", "\\u2ce0", "\\u2ce2", "\\u2ceb", "\\u2ced", "\\u2cf2",
       "\\ua640", "\\ua642", "\\ua644", "\\ua646", "\\ua648", "\\ua64a", "\\ua64c", "\\ua64e",
       "\\ua650", "\\ua652", "\\ua654", "\\ua656", "\\ua658", "\\ua65a", "\\ua65c", "\\ua65e",
       "\\ua660", "\\ua662", "\\ua664", "\\ua666", "\\ua668", "\\ua66a", "\\ua66c", "\\ua680",
       "\\ua682", "\\ua684", "\\ua686", "\\ua688", "\\ua68a", "\\ua68c", "\\ua68e", "\\ua690",
       "\\ua692", "\\ua694", "\\ua696", "\\ua698", "\\ua69a", "\\ua722", "\\ua724", "\\ua726",
       "\\ua728", "\\ua72a", "\\ua72c", "\\ua72e", "\\ua732", "\\ua734", "\\ua736", "\\ua738",
       "\\ua73a", "\\ua73c", "\\ua73e", "\\ua740", "\\ua742", "\\ua744", "\\ua746", "\\ua748",
       "\\ua74a", "\\ua74c", "\\ua74e", "\\ua750", "\\ua752", "\\ua754", "\\ua756", "\\ua758",
       "\\ua75a", "\\ua75c", "\\ua75e", "\\ua760", "\\ua762", "\\ua764", "\\ua766", "\\ua768",
       "\\ua76a", "\\ua76c", "\\ua76e", "\\ua779", "\\ua77b", "\\ua77d", "\\ua77e", "\\ua780",
       "\\ua782", "\\ua784", "\\ua786", "\\ua78b", "\\ua78d", "\\ua790", "\\ua792", "\\ua796",
       "\\ua798", "\\ua79a", "\\ua79c", "\\ua79e", "\\ua7a0", "\\ua7a2", "\\ua7a4", "\\ua7a6",
       "\\ua7a8", "\\ua7aa", "\\ua7ab", "\\ua7ac", "\\ua7ad", "\\ua7ae", "\\ua7b0", "\\ua7b1",
       "\\ua7b2", "\\ua7b3", "\\ua7b4", "\\ua7b6", "\\ua7b8", "\\ua7ba", "\\ua7bc", "\\ua7be",
       "\\ua7c0", "\\ua7c2", "\\ua7c4", "\\ua7c5", "\\ua7c6", "\\ua7c7", "\\ua7c9", "\\ua7d0",
       "\\ua7d6", "\\ua7d8", "\\ua7f5", "\\uff21", "\\uff22", "\\uff23", "\\uff24", "\\uff25",
       "\\uff26", "\\uff27", "\\uff28", "\\uff29", "\\uff2a", "\\uff2b", "\\uff2c", "\\uff2d",
       "\\uff2e", "\\uff2f", "\\uff30", "\\uff31", "\\uff32", "\\uff33", "\\uff34", "\\uff35",
       "\\uff36", "\\uff37", "\\uff38", "\\uff39", "\\uff3a", "\\U00010400", "\\U00010401", "\\U00010402",
       "\\U00010403", "\\U00010404", "\\U00010405", "\\U00010406", "\\U00010407", "\\U00010408", "\\U00010409", "\\U0001040a",
       "\\U0001040b", "\\U0001040c", "\\U0001040d", "\\U0001040e", "\\U0001040f", "\\U00010410", "\\U00010411", "\\U00010412",
       "\\U00010413", "\\U00010414", "\\U00010415", "\\U00010416", "\\U00010417", "\\U00010418", "\\U00010419", "\\U0001041a",
       "\\U0001041b", "\\U0001041c", "\\U0001041d", "\\U0001041e", "\\U0001041f", "\\U00010420", "\\U00010421", "\\U00010422",
       "\\U00010423", "\\U00010424", "\\U00010425", "\\U00010426", "\\U00010427", "\\U000104b0", "\\U000104b1", "\\U000104b2",
       "\\U000104b3", "\\U000104b4", "\\U000104b5", "\\U000104b6", "\\U000104b7", "\\U000104b8", "\\U000104b9", "\\U000104ba",
       "\\U000104bb", "\\U000104bc", "\\U000104bd", "\\U000104be", "\\U000104bf", "\\U000104c0", "\\U000104c1", "\\U000104c2",
       "\\U000104c3", "\\U000104c4", "\\U000104c5", "\\U000104c6", "\\U000104c7", "\\U000104c8", "\\U000104c9", "\\U000104ca",
       "\\U000104cb", "\\U000104cc", "\\U000104cd", "\\U000104ce", "\\U000104cf", "\\U000104d0", "\\U000104d1", "\\U000104d2",
       "\\U000104d3", "\\U00010570", "\\U00010571", "\\U00010572", "\\U00010573", "\\U00010574", "\\U00010575", "\\U00010576",
       "\\U00010577", "\\U00010578", "\\U00010579", "\\U0001057a", "\\U0001057c", "\\U0001057d", "\\U0001057e", "\\U0001057f",
       "\\U00010580", "\\U00010581", "\\U00010582", "\\U00010583", "\\U00010584", "\\U00010585", "\\U00010586", "\\U00010587",
       "\\U00010588", "\\U00010589", "\\U0001058a", "\\U0001058c", "\\U0001058d", "\\U0001058e", "\\U0001058f", "\\U00010590",
       "\\U00010591", "\\U00010592", "\\U00010594", "\\U00010595", "\\U00010c80", "\\U00010c81", "\\U00010c82", "\\U00010c83",
       "\\U00010c84", "\\U00010c85", "\\U00010c86", "\\U00010c87", "\\U00010c88", "\\U00010c89", "\\U00010c8a", "\\U00010c8b",
       "\\U00010c8c", "\\U00010c8d", "\\U00010c8e", "\\U00010c8f", "\\U00010c90", "\\U00010c91", "\\U00010c92", "\\U00010c93",
       "\\U00010c94", "\\U00010c95", "\\U00010c96", "\\U00010c97", "\\U00010c98", "\\U00010c99", "\\U00010c9a", "\\U00010c9b",
       "\\U00010c9c", "\\U00010c9d", "\\U00010c9e", "\\U00010c9f", "\\U00010ca0", "\\U00010ca1", "\\U00010ca2", "\\U00010ca3",
       "\\U00010ca4", "\\U00010ca5", "\\U00010ca6", "\\U00010ca7", "\\U00010ca8", "\\U00010ca9", "\\U00010caa", "\\U00010cab",
       "\\U00010cac", "\\U00010cad", "\\U00010cae", "\\U00010caf", "\\U00010cb0", "\\U00010cb1", "\\U00010cb2", "\\U000118a0",
       "\\U000118a1", "\\U000118a2", "\\U000118a3", "\\U000118a4", "\\U000118a5", "\\U000118a6", "\\U000118a7", "\\U000118a8",
       "\\U000118a9", "\\U000118aa", "\\U000118ab", "\\U000118ac", "\\U000118ad", "\\U000118ae", "\\U000118af", "\\U000118b0",
       "\\U000118b1", "\\U000118b2", "\\U000118b3", "\\U000118b4", "\\U000118b5", "\\U000118b6", "\\U000118b7", "\\U000118b8",
       "\\U000118b9", "\\U000118ba", "\\U000118bb", "\\U000118bc", "\\U000118bd", "\\U000118be", "\\U000118bf", "\\U00016e40",
       "\\U00016e41", "\\U00016e42", "\\U00016e43", "\\U00016e44", "\\U00016e45", "\\U00016e46", "\\U00016e47", "\\U00016e48",
       "\\U00016e49", "\\U00016e4a", "\\U00016e4b", "\\U00016e4c", "\\U00016e4d", "\\U00016e4e", "\\U00016e4f", "\\U00016e50",
       "\\U00016e51", "\\U00016e52", "\\U00016e53", "\\U00016e54", "\\U00016e55", "\\U00016e56", "\\U00016e57", "\\U00016e58",
       "\\U00016e59", "\\U00016e5a", "\\U00016e5b", "\\U00016e5c", "\\U00016e5d", "\\U00016e5e", "\\U00016e5f", "\\U0001e900",
       "\\U0001e901", "\\U0001e902", "\\U0001e903", "\\U0001e904", "\\U0001e905", "\\U0001e906", "\\U0001e907", "\\U0001e908",
       "\\U0001e909", "\\U0001e90a", "\\U0001e90b", "\\U0001e90c", "\\U0001e90d", "\\U0001e90e", "\\U0001e90f", "\\U0001e910",
       "\\U0001e911", "\\U0001e912", "\\U0001e913", "\\U0001e914", "\\U0001e915", "\\U0001e916", "\\U0001e917", "\\U0001e918",
       "\\U0001e919", "\\U0001e91a", "\\U0001e91b", "\\U0001e91c", "\\U0001e91d", "\\U0001e91e", "\\U0001e91f", "\\U0001e920",
       "\\U0001e921" >>
Lowered ==
    << << "a" >>, << "b" >>, << "c" >>, << "d" >>, << "e" >>, << "f" >>,
       << "g" >>, << "h" >>, << "i" >>, << "j" >>, << "k" >>, << "l" >>,
       << "m" >>, << "n" >>, << "o" >>, << "p" >>, << "q" >>, << "r" >>,
       << "s" >>, << "t" >>, << "u" >>, << "v" >>, << "w" >>, << "x" >>,
       << "y" >>, << "z" >>, << "\\xe0" >>, << "\\xe1" >>, << "\\xe2" >>, << "\\xe3" >>,
       << "\\xe4" >>, << "\\xe5" >>, << "\\xe6" >>, << "\\xe7" >>, << "\\xe8" >>, << "\\xe9" >>,
       << "\\xea" >>, << "\\xeb" >>, << "\\xec" >>, << "\\xed" >>, << "\\xee" >>, << "\\xef" >>,
       << "\\xf0" >>, << "\\xf1" >>, << "\\xf2" >>, << "\\xf3" >>, << "\\xf4" >>, << "\\xf5" >>,
       << "\\xf6" >>, << "\\xf8" >>, << "\\xf9" >>, << "\\xfa" >>, << "\\xfb" >>, << "\\xfc" >>,
       << "\\xfd" >>, << "\\xfe" >>, << "\\u0101" >>, << "\\u0103" >>, << "\\u0105" >>, << "\\u0107" >>,
       << "\\u0109" >>, << "\\u010b" >>, << "\\u010d" >>, << "\\u010f" >>, << "\\u0111" >>, << "\\u0113" >>,
       << "\\u0115" >>, << "\\u0117" >>, << "\\u0119" >>, << "\\u011b" >>, << "\\u011d" >>, << "\\u011f" >>,
       << "\\u0121" >>, << "\\u0123" >>, << "\\u0125" >>, << "\\u0127" >>, << "\\u0129" >>, << "\\u012b" >>,
       << "\\u012d" >>, << "\\u012f" >>, << "i", "\\u0307" >>, << "\\u0133" >>, << "\\u0135" >>, << "\\u0137" >>,
       << "\\u013a" >>, << "\\u013c" >>, << "\\u013e" >>, << "\\u0140" >>, << "\\u0142" >>, << "\\u0144" >>,
       << "\\u0146" >>, << "\\u0148" >>, << "\\u014b" >>, << "\\u014d" >>, << "\\u014f" >>, << "\\u0151" >>,
       << "\\u0153" >>, << "\\u0155" >>, << "\\u0157" >>, << "\\u0159" >>, << "\\u015b" >>, << "\\u015d" >>,
       << "\\u015f" >>, << "\\u0161" >>, << "\\u0163" >>, << "\\u0165" >>, << "\\u0167" >>, << "\\u0169" >>,
       << "\\u016b" >>, << "\\u016d" >>, << "\\u016f" >>, << "\\u0171" >>, << "\\u0173" >>, << "\\u0175" >>,
       << "\\u0177" >>, << "\\xff" >>, << "\\u017a" >>, << "\\u017c" >>, << "\\u017e" >>, << "\\u0253" >>,
       << "\\u0183" >>, << "\\u0185" >>, << "\\u0254" >>, << "\\u0188" >>, << "\\u0256" >>, << "\\u0257" >>,
       << "\\u018c" >>, << "\\u01dd" >>, << "\\u0259" >>, << "\\u025b" >>, << "\\u0192" >>, << "\\u0260" >>,
       << "\\u0263" >>, << "\\u0269" >>, << "\\u0268" >>, << "\\u0199" >>, << "\\u026f" >>, << "\\u0272" >>,
       << "\\u0275" >>, << "\\u01a1" >>, << "\\u01a3" >>, << "\\u01a5" >>, << "\\u0280" >>, << "\\u01a8" >>,
       << "\\u0283" >>, << "\\u01ad" >>, << "\\u0288" >>, << "\\u01b0" >>, << "\\u028a" >>, << "\\u028b" >>,
       << "\\u01b4" >>, << "\\u01b6" >>, << "\\u0292" >>, << "\\u01b9" >>, << "\\u01bd" >>, << "\\u01c6" >>,
       << "\\u01c6" >>, << "\\u01c9" >>, << "\\u01c9" >>, << "\\u01cc" >>, << "\\u01cc" >>, << "\\u01ce" >>,
       << "\\u01d0" >>, << "\\u01d2" >>, << "\\u01d4" >>, << "\\u01d6" >>, << "\\u01d8" >>, << "\\u01da" >>,
       << "\\u01dc" >>, << "\\u01df" >>, << "\\u01e1" >>, << "\\u01e3" >>, << "\\u01e5" >>, << "\\u01e7" >>,
       << "\\u01e9" >>, << "\\u01eb" >>, << "\\u01ed" >>, << "\\u01ef" >>, << "\\u01f3" >>, << "\\u01f3" >>,
       << "\\u01f5" >>, << "\\u0195" >>, << "\\u01bf" >>, << "\\u01f9" >>, << "\\u01fb" >>, << "\\u01fd" >>,
       << "\\u01ff" >>, << "\\u0201" >>, << "\\u0203" >>, << "\\u0205" >>, << "\\u0207" >>, << "\\u0209" >>,
       << "\\u020b" >>, << "\\u020d" >>, << "\\u020f" >>, << "\\u0211" >>, << "\\u0213" >>, << "\\u0215" >>,
       << "\\u0217" >>, << "\\u0219" >>, << "\\u021b" >>, << "\\u021d" >>, << "\\u021f" >>, << "\\u019e" >>,
       << "\\u0223" >>, << "\\u0225" >>, << "\\u0227" >>, << "\\u0229" >>, << "\\u022b" >>, << "\\u022d" >>,
       << "\\u022f" >>, << "\\u0231" >>, << "\\u0233" >>, << "\\u2c65" >>, << "\\u023c" >>, << "\\u019a" >>,
       << "\\u2c66" >>, << "\\u0242" >>, << "\\u0180" >>, << "\\u0289" >>, << "\\u028c" >>, << "\\u0247" >>,
       << "\\u0249" >>, << "\\u024b" >>, << "\\u024d" >>, << "\\u024f" >>, << "\\u0371" >>, << "\\u0373" >>,
       << "\\u0377" >>, << "\\u03f3" >>, << "\\u03ac" >>, << "\\u03ad" >>, << "\\u03ae" >>, << "\\u03af" >>,
       << "\\u03cc" >>, << "\\u03cd" >>, << "\\u03ce" >>, << "\\u03b1" >>, << "\\u03b2" >>, << "\\u03b3" >>,
       << "\\u03b4" >>, << "\\u03b5" >>, << "\\u03b6" >>, << "\\u03b7" >>, << "\\u03b8" >>, << "\\u03b9" >>,
       << "\\u03ba" >>, << "\\u03bb" >>, << "\\u03bc" >>, << "\\u03bd" >>, << "\\u03be" >>, << "\\u03bf" >>,
       << "\\u03c0" >>, << "\\u03c1" >>, << "\\u03c3" >>, << "\\u03c4" >>, << "\\u03c5" >>, << "\\u03c6" >>,
       << "\\u03c7" >>, << "\\u03c8" >>, << "\\u03c9" >>, << "\\u03ca" >>, << "\\u03cb" >>, << "\\u03d7" >>,
       << "\\u03d9" >>, << "\\u03db" >>, << "\\u03dd" >>, << "\\u03df" >>, << "\\u03e1" >>, << "\\u03e3" >>,
       << "\\u03e5" >>, << "\\u03e7" >>, << "\\u03e9" >>, << "\\u03eb" >>, << "\\u03ed" >>, << "\\u03ef" >>,
       << "\\u03b8" >>, << "\\u03f8" >>, << "\\u03f2" >>, << "\\u03fb" >>, << "\\u037b" >>, << "\\u037c" >>,
       << "\\u037d" >>, << "\\u0450" >>, << "\\u0451" >>, << "\\u0452" >>, << "\\u0453" >>, << "\\u0454" >>,
       << "\\u0455" >>, << "\\u0456" >>, << "\\u0457" >>, << "\\u0458" >>, << "\\u0459" >>, << "\\u045a" >>,
       << "\\u045b" >>, << "\\u045c" >>, << "\\u045d" >>, << "\\u045e" >>, << "\\u045f" >>, << "\\u0430" >>,
       << "\\u0431" >>, << "\\u0432" >>, << "\\u0433" >>, << "\\u0434" >>, << "\\u0435" >>, << "\\u0436" >>,
       << "\\u0437" >>, << "\\u0438" >>, << "\\u0439" >>, << "\\u043a" >>, << "\\u043b" >>, << "\\u043c" >>,
       << "\\u043d" >>, << "\\u043e" >>, << "\\u043f" >>, << "\\u0440" >>, << "\\u0441" >>, << "\\u0442" >>,
       << "\\u0443" >>, << "\\u0444" >>, << "\\u0445" >>, << "\\u0446" >>, << "\\u0447" >>, << "\\u0448" >>,
       << "\\u0449" >>, << "\\u044a" >>, << "\\u044b" >>, << "\\u044c" >>, << "\\u044d" >>, << "\\u044e" >>,
       << "\\u044f" >>, << "\\u0461" >>, << "\\u0463" >>, << "\\u0465" >>, << "\\u0467" >>, << "\\u0469" >>,
       << "\\u046b" >>, << "\\u046d" >>, << "\\u046f" >>, << "\\u0471" >>, << "\\u0473" >>, << "\\u0475" >>,
       << "\\u0477" >>, << "\\u0479" >>, << "\\u047b" >>, << "\\u047d" >>, << "\\u047f" >>, << "\\u0481" >>,
       << "\\u048b" >>, << "\\u048d" >>, << "\\u048f" >>, << "\\u0491" >>, << "\\u0493" >>, << "\\u0495" >>,
       << "\\u0497" >>, << "\\u0499" >>, << "\\u049b" >>, << "\\u049d" >>, << "\\u049f" >>, << "\\u04a1" >>,
       << "\\u04a3" >>, << "\\u04a5" >>, << "\\u04a7" >>, << "\\u04a9" >>, << "\\u04ab" >>, << "\\u04ad" >>,
       << "\\u04af" >>, << "\\u04b1" >>, << "\\u04b3" >>, << "\\u04b5" >>, << "\\u04b7" >>, << "\\u04b9" >>,
       << "\\u04bb" >>, << "\\u04bd" >>, << "\\u04bf" >>, << "\\u04cf" >>, << "\\u04c2" >>, << "\\u04c4" >>,
       << "\\u04c6" >>, << "\\u04c8" >>, << "\\u04ca" >>, << "\\u04cc" >>, << "\\u04ce" >>, << "\\u04d1" >>,
       << "\\u04d3" >>, << "\\u04d5" >>, << "\\u04d7" >>, << "\\u04d9" >>, << "\\u04db" >>, << "\\u04dd" >>,
       << "\\u04df" >>, << "\\u04e1" >>, << "\\u04e3" >>, << "\\u04e5" >>, << "\\u04e7" >>, << "\\u04e9" >>,
       << "\\u04eb" >>, << "\\u04ed" >>, << "\\u04ef" >>, << "\\u04f1" >>, << "\\u04f3" >>, << "\\u04f5" >>,
       << "\\u04f7" >>, << "\\u04f9" >>, << "\\u04fb" >>, << "\\u04fd" >>, << "\\u04ff" >>, << "\\u0501" >>,
       << "\\u0503" >>, << "\\u0505" >>, << "\\u0507" >>, << "\\u0509" >>, << "\\u050b" >>, << "\\u050d" >>,
       << "\\u050f" >>, << "\\u0511" >>, << "\\u0513" >>, << "\\u0515" >>, << "\\u0517" >>, << "\\u0519" >>,
       << "\\u051b" >>, << "\\u051d" >>, << "\\u051f" >>, << "\\u0521" >>, << "\\u0523" >>, << "\\u0525" >>,
       << "\\u0527" >>, << "\\u0529" >>, << "\\u052b" >>, << "\\u052d" >>, << "\\u052f" >>, << "\\u0561" >>,
       << "\\u0562" >>, << "\\u0563" >>, << "\\u0564" >>, << "\\u0565" >>, << "\\u0566" >>, << "\\u0567" >>,
       << "\\u0568" >>, << "\\u0569" >>, << "\\u056a" >>, << "\\u056b" >>, << "\\u056c" >>, << "\\u056d" >>,
       << "\\u056e" >>, << "\\u056f" >>, << "\\u0570" >>, << "\\u0571" >>, << "\\u0572" >>, << "\\u0573" >>,
       << "\\u0574" >>, << "\\u0575" >>, << "\\u0576" >>, << "\\u0577" >>, << "\\u0578" >>, << "\\u0579" >>,
       << "\\u057a" >>, << "\\u057b" >>, << "\\u057c" >>, << "\\u057d" >>, << "\\u057e" >>, << "\\u057f" >>,
       << "\\u0580" >>, << "\\u0581" >>, << "\\u0582" >>, << "\\u0583" >>, << "\\u0584" >>, << "\\u0585" >>,
       << "\\u0586" >>, << "\\u2d00" >>, << "\\u2d01" >>, << "\\u2d02" >>, << "\\u2d03" >>, << "\\u2d04" >>,
       << "\\u2d05" >>, << "\\u2d06" >>, << "\\u2d07" >>, << "\\u2d08" >>, << "\\u2d09" >>, << "\\u2d0a" >>,
       << "\\u2d0b" >>, << "\\u2d0c" >>, << "\\u2d0d" >>, << "\\u2d0e" >>, << "\\u2d0f" >>, << "\\u2d10" >>,
       << "\\u2d11" >>, << "\\u2d12" >>, << "\\u2d13" >>, << "\\u2d14" >>, << "\\u2d15" >>, << "\\u2d16" >>,
       << "\\u2d17" >>, << "\\u2d18" >>, << "\\u2d19" >>, << "\\u2d1a" >>, << "\\u2d1b" >>, << "\\u2d1c" >>,
       << "\\u2d1d" >>, << "\\u2d1e" >>, << "\\u2d1f" >>, << "\\u2d20" >>, << "\\u2d21" >>, << "\\u2d22" >>,
       << "\\u2d23" >>, << "\\u2d24" >>, << "\\u2d25" >>, << "\\u2d27" >>, << "\\u2d2d" >>, << "\\uab70" >>,
       << "\\uab71" >>, << "\\uab72" >>, << "\\uab73" >>, << "\\uab74" >>, << "\\uab75" >>, << "\\uab76" >>,
       << "\\uab77" >>, << "\\uab78" >>, << "\\uab79" >>, << "\\uab7a" >>, << "\\uab7b" >>, << "\\uab7c" >>,
       << "\\uab7d" >>, << "\\uab7e" >>, << "\\uab7f" >>, << "\\uab80" >>, << "\\uab81" >>, << "\\uab82" >>,
       << "\\uab83" >>, << "\\uab84" >>, << "\\uab85" >>, << "\\uab86" >>, << "\\uab87" >>, << "\\uab88" >>,
       << "\\uab89" >>, << "\\uab8a" >>, << "\\uab8b" >>, << "\\uab8c" >>, << "\\uab8d" >>, << "\\uab8e" >>,
       << "\\uab8f" >>, << "\\uab90" >>, << "\\uab91" >>, << "\\uab92" >>, << "\\uab93" >>, << "\\uab94" >>,
       << "\\uab95" >>, << "\\uab96" >>, << "\\uab97" >>, << "\\uab98" >>, << "\\uab99" >>, << "\\uab9a" >>,
       << "\\uab9b" >>, << "\\uab9c" >>, << "\\uab9d" >>, << "\\uab9e" >>, << "\\uab9f" >>, << "\\uaba0" >>,
       << "\\uaba1" >>, << "\\uaba2" >>, << "\\uaba3" >>, << "\\uaba4" >>, << "\\uaba5" >>, << "\\uaba6" >>,
       << "\\uaba7" >>, << "\\uaba8" >>, << "\\uaba9" >>, << "\\uabaa" >>, << "\\uabab" >>, << "\\uabac" >>,
       << "\\uabad" >>, << "\\uabae" >>, << "\\uabaf" >>, << "\\uabb0" >>, << "\\uabb1" >>, << "\\uabb2" >>,
       << "\\uabb3" >>, << "\\uabb4" >>, << "\\uabb5" >>, << "\\uabb6" >>, << "\\uabb7" >>, << "\\uabb8" >>,
       << "\\uabb9" >>, << "\\uabba" >>, << "\\uabbb" >>, << "\\uabbc" >>, << "\\uabbd" >>, << "\\uabbe" >>,
       << "\\uabbf" >>, << "\\u13f8" >>, << "\\u13f9" >>, << "\\u13fa" >>, << "\\u13fb" >>, << "\\u13fc" >>,
       << "\\u13fd" >>, << "\\u10d0" >>, << "\\u10d1" >>, << "\\u10d2" >>, << "\\u10d3" >>, << "\\u10d4" >>,
       << "\\u10d5" >>, << "\\u10d6" >>, << "\\u10d7" >>, << "\\u10d8" >>, << "\\u10d9" >>, << "\\u10da" >>,
       << "\\u10db" >>, << "\\u10dc" >>, << "\\u10dd" >>, << "\\u10de" >>, << "\\u10df" >>, << "\\u10e0" >>,
       << "\\u10e1" >>, << "\\u10e2" >>, << "\\u10e3" >>, << "\\u10e4" >>, << "\\u10e5" >>, << "\\u10e6" >>,
       << "\\u10e7" >>, << "\\u10e8" >>, << "\\u10e9" >>, << "\\u10ea" >>, << "\\u10eb" >>, << "\\u10ec" >>,
       << "\\u10ed" >>, << "\\u10ee" >>, << "\\u10ef" >>, << "\\u10f0" >>, << "\\u10f1" >>, << "\\u10f2" >>,
       << "\\u10f3" >>, << "\\u10f4" >>, << "\\u10f5" >>, << "\\u10f6" >>, << "\\u10f7" >>, << "\\u10f8" >>,
       << "\\u10f9" >>, << "\\u10fa" >>, << "\\u10fd" >>, << "\\u10fe" >>, << "\\u10ff" >>, << "\\u1e01" >>,
       << "\\u1e03" >>, << "\\u1e05" >>, << "\\u1e07" >>, << "\\u1e09" >>, << "\\u1e0b" >>, << "\\u1e0d" >>,
       << "\\u1e0f" >>, << "\\u1e11" >>, << "\\u1e13" >>, << "\\u1e15" >>, << "\\u1e17" >>, << "\\u1e19" >>,
       << "\\u1e1b" >>, << "\\u1e1d" >>, << "\\u1e1f" >>, << "\\u1e21" >>, << "\\u1e23" >>, << "\\u1e25" >>,
       << "\\u1e27" >>, << "\\u1e29" >>, << "\\u1e2b" >>, << "\\u1e2d" >>, << "\\u1e2f" >>, << "\\u1e31" >>,
       << "\\u1e33" >>, << "\\u1e35" >>, << "\\u1e37" >>, << "\\u1e39" >>, << "\\u1e3b" >>, << "\\u1e3d" >>,
       << "\\u1e3f" >>, << "\\u1e41" >>, << "\\u1e43" >>, << "\\u1e45" >>, << "\\u1e47" >>, << "\\u1e49" >>,
       << "\\u1e4b" >>, << "\\u1e4d" >>, << "\\u1e4f" >>, << "\\u1e51" >>, << "\\u1e53" >>, << "\\u1e55" >>,
       << "\\u1e57" >>, << "\\u1e59" >>, << "\\u1e5b" >>, << "\\u1e5d" >>, << "\\u1e5f" >>, << "\\u1e61" >>,
       << "\\u1e63" >>, << "\\u1e65" >>, << "\\u1e67" >>, << "\\u1e69" >>, << "\\u1e6b" >>, << "\\u1e6d" >>,
       << "\\u1e6f" >>, << "\\u1e71" >>, << "\\u1e73" >>, << "\\u1e75" >>, << "\\u1e77" >>, << "\\u1e79" >>,
       << "\\u1e7b" >>, << "\\u1e7d" >>, << "\\u1e7f" >>, << "\\u1e81" >>, << "\\u1e83" >>, << "\\u1e85" >>,
       << "\\u1e87" >>, << "\\u1e89" >>, << "\\u1e8b" >>, << "\\u1e8d" >>, << "\\u1e8f" >>, << "\\u1e91" >>,
       << "\\u1e93" >>, << "\\u1e95" >>, << "\\xdf" >>, << "\\u1ea1" >>, << "\\u1ea3" >>, << "\\u1ea5" >>,
       << "\\u1ea7" >>, << "\\u1ea9" >>, << "\\u1eab" >>, << "\\u1ead" >>, << "\\u1eaf" >>, << "\\u1eb1" >>,
       << "\\u1eb3" >>, << "\\u1eb5" >>, << "\\u1eb7" >>, << "\\u1eb9" >>, << "\\u1ebb" >>, << "\\u1ebd" >>,
       << "\\u1ebf" >>, << "\\u1ec1" >>, << "\\u1ec3" >>, << "\\u1ec5" >>, << "\\u1ec7" >>, << "\\u1ec9" >>,
       << "\\u1ecb" >>, << "\\u1ecd" >>, << "\\u1ecf" >>, << "\\u1ed1" >>, << "\\u1ed3" >>, << "\\u1ed5" >>,
       << "\\u1ed7" >>, << "\\u1ed9" >>, << "\\u1edb" >>, << "\\u1edd" >>, << "\\u1edf" >>, << "\\u1ee1" >>,
       << "\\u1ee3" >>, << "\\u1ee5" >>, << "\\u1ee7" >>, << "\\u1ee9" >>, << "\\u1eeb" >>, << "\\u1eed" >>,
       << "\\u1eef" >>, << "\\u1ef1" >>, << "\\u1ef3" >>, << "\\u1ef5" >>, << "\\u1ef7" >>, << "\\u1ef9" >>,
       << "\\u1efb" >>, << "\\u1efd" >>, << "\\u1eff" >>, << "\\u1f00" >>, << "\\u1f01" >>, << "\\u1f02" >>,
       << "\\u1f03" >>, << "\\u1f04" >>, << "\\u1f05" >>, << "\\u1f06" >>, << "\\u1f07" >>, << "\\u1f10" >>,
       << "\\u1f11" >>, << "\\u1f12" >>, << "\\u1f13" >>, << "\\u1f14" >>, << "\\u1f15" >>, << "\\u1f20" >>,
       << "\\u1f21" >>, << "\\u1f22" >>, << "\\u1f23" >>, << "\\u1f24" >>, << "\\u1f25" >>, << "\\u1f26" >>,
       << "\\u1f27" >>, << "\\u1f30" >>, << "\\u1f31" >>, << "\\u1f32" >>, << "\\u1f33" >>, << "\\u1f34" >>,
       << "\\u1f35" >>, << "\\u1f36" >>, << "\\u1f37" >>, << "\\u1f40" >>, << "\\u1f41" >>, << "\\u1f42" >>,
       << "\\u1f43" >>, << "\\u1f44" >>, << "\\u1f45" >>, << "\\u1f51" >>, << "\\u1f53" >>, << "\\u1f55" >>,
       << "\\u1f57" >>, << "\\u1f60" >>, << "\\u1f61" >>, << "\\u1f62" >>, << "\\u1f63" >>, << "\\u1f64" >>,
       << "\\u1f65" >>, << "\\u1f66" >>, << "\\u1f67" >>, << "\\u1f80" >>, << "\\u1f81" >>, << "\\u1f82" >>,
       << "\\u1f83" >>, << "\\u1f84" >>, << "\\u1f85" >>, << "\\u1f86" >>, << "\\u1f87" >>, << "\\u1f90" >>,
       << "\\u1f91" >>, << "\\u1f92" >>, << "\\u1f93" >>, << "\\u1f94" >>, << "\\u1f95" >>, << "\\u1f96" >>,
       << "\\u1f97" >>, << "\\u1fa0" >>, << "\\u1fa1" >>, << "\\u1fa2" >>, << "\\u1fa3" >>, << "\\u1fa4" >>,
       << "\\u1fa5" >>, << "\\u1fa6" >>, << "\\u1fa7" >>, << "\\u1fb0" >>, << "\\u1fb1" >>, << "\\u1f70" >>,
       << "\\u1f71" >>, << "\\u1fb3" >>, << "\\u1f72" >>, << "\\u1f73" >>, << "\\u1f74" >>, << "\\u1f75" >>,
       << "\\u1fc3" >>, << "\\u1fd0" >>, << "\\u1fd1" >>, << "\\u1f76" >>, << "\\u1f77" >>, << "\\u1fe0" >>,
       << "\\u1fe1" >>, << "\\u1f7a" >>, << "\\u1f7b" >>, << "\\u1fe5" >>, << "\\u1f78" >>, << "\\u1f79" >>,
       << "\\u1f7c" >>, << "\\u1f7d" >>, << "\\u1ff3" >>, << "\\u03c9" >>, << "k" >>, << "\\xe5" >>,
       << "\\u214e" >>, << "\\u2170" >>, << "\\u2171" >>, << "\\u2172" >>, << "\\u2173" >>, << "\\u2174" >>,
       << "\\u2175" >>, << "\\u2176" >>, << "\\u2177" >>, << "\\u2178" >>, << "\\u2179" >>, << "\\u217a" >>,
       << "\\u217b" >>, << "\\u217c" >>, << "\\u217d" >>, << "\\u217e" >>, << "\\u217f" >>, << "\\u2184" >>,
       << "\\u24d0" >>, << "\\u24d1" >>, << "\\u24d2" >>, << "\\u24d3" >>, << "\\u24d4" >>, << "\\u24d5" >>,
       << "\\u24d6" >>, << "\\u24d7" >>, << "\\u24d8" >>, << "\\u24d9" >>, << "\\u24da" >>, << "\\u24db" >>,
       << "\\u24dc" >>, << "\\u24dd" >>, << "\\u24de" >>, << "\\u24df" >>, << "\\u24e0" >>, << "\\u24e1" >>,
       << "\\u24e2" >>, << "\\u24e3" >>, << "\\u24e4" >>, << "\\u24e5" >>, << "\\u24e6" >>, << "\\u24e7" >>,
       << "\\u24e8" >>, << "\\u24e9" >>, << "\\u2c30" >>, << "\\u2c31" >>, << "\\u2c32" >>, << "\\u2c33" >>,
       << "\\u2c34" >>, << "\\u2c35" >>, << "\\u2c36" >>, << "\\u2c37" >>, << "\\u2c38" >>, << "\\u2c39" >>,
       << "\\u2c3a" >>, << "\\u2c3b" >>, << "\\u2c3c" >>, << "\\u2c3d" >>, << "\\u2c3e" >>, << "\\u2c3f" >>,
       << "\\u2c40" >>, << "\\u2c41" >>, << "\\u2c42" >>, << "\\u2c43" >>, << "\\u2c44" >>, << "\\u2c45" >>,
       << "\\u2c46" >>, << "\\u2c47" >>, << "\\u2c48" >>, << "\\u2c49" >>, << "\\u2c4a" >>, << "\\u2c4b" >>,
       << "\\u2c4c" >>, << "\\u2c4d" >>, << "\\u2c4e" >>, << "\\u2c4f" >>, << "\\u2c50" >>, << "\\u2c51" >>,
       << "\\u2c52" >>, << "\\u2c53" >>, << "\\u2c54" >>, << "\\u2c55" >>, << "\\u2c56" >>, << "\\u2c57" >>,
       << "\\u2c58" >>, << "\\u2c59" >>, << "\\u2c5a" >>, << "\\u2c5b" >>, << "\\u2c5c" >>, << "\\u2c5d" >>,
       << "\\u2c5e" >>, << "\\u2c5f" >>, << "\\u2c61" >>, << "\\u026b" >>, << "\\u1d7d" >>, << "\\u027d" >>,
       << "\\u2c68" >>, << "\\u2c6a" >>, << "\\u2c6c" >>, << "\\u0251" >>, << "\\u0271" >>, << "\\u0250" >>,
       << "\\u0252" >>, << "\\u2c73" >>, << "\\u2c76" >>, << "\\u023f" >>, << "\\u0240" >>, << "\\u2c81" >>,
       << "\\u2c83" >>, << "\\u2c85" >>, << "\\u2c87" >>, << "\\u2c89" >>, << "\\u2c8b" >>, << "\\u2c8d" >>,
       << "\\u2c8f" >>, << "\\u2c91" >>, << "\\u2c93" >>, << "\\u2c95" >>, << "\\u2c97" >>, << "\\u2c99" >>,
       << "\\u2c9b" >>, << "\\u2c9d" >>, << "\\u2c9f" >>, << "\\u2ca1" >>, << "\\u2ca3" >>, << "\\u2ca5" >>,
       << "\\u2ca7" >>, << "\\u2ca9" >>, << "\\u2cab" >>, << "\\u2cad" >>, << "\\u2caf" >>, << "\\u2cb1" >>,
       << "\\u2cb3" >>, << "\\u2cb5" >>, << "\\u2cb7" >>, << "\\u2cb9" >>, << "\\u2cbb" >>, << "\\u2cbd" >>,
       << "\\u2cbf" >>, << "\\u2cc1" >>, << "\\u2cc3" >>, << "\\u2cc5" >>, << "\\u2cc7" >>, << "\\u2cc9" >>,
       << "\\u2ccb" >>, << "\\u2ccd" >>, << "\\u2ccf" >>, << "\\u2cd1" >>, << "\\u2cd3" >>, << "\\u2cd5" >>,
       << "\\u2cd7" >>, << "\\u2cd9" >>, << "\\u2cdb" >>, << "\\u2cdd" >>, << "\\u2cdf" >>, << "\\u2ce1" >>,
       << "\\u2ce3" >>, << "\\u2cec" >>, << "\\u2cee" >>, << "\\u2cf3" >>, << "\\ua641" >>, << "\\ua643" >>,
       << "\\ua645" >>, << "\\ua647" >>, << "\\ua649" >>, << "\\ua64b" >>, << "\\ua64d" >>, << "\\ua64f" >>,
       << "\\ua651" >>, << "\\ua653" >>, << "\\ua655" >>, << "\\ua657" >>, << "\\ua659" >>, << "\\ua65b" >>,
       << "\\ua65d" >>, << "\\ua65f" >>, << "\\ua661" >>, << "\\ua663" >>, << "\\ua665" >>, << "\\ua667" >>,
       << "\\ua669" >>, << "\\ua66b" >>, << "\\ua66d" >>, << "\\ua681" >>, << "\\ua683" >>, << "\\ua685" >>,
       << "\\ua687" >>, << "\\ua689" >>, << "\\ua68b" >>, << "\\ua68d" >>, << "\\ua68f" >>, << "\\ua691" >>,
       << "\\ua693" >>, << "\\ua695" >>, << "\\ua697" >>, << "\\ua699" >>, << "\\ua69b" >>, << "\\ua723" >>,
       << "\\ua725" >>, << "\\ua727" >>, << "\\ua729" >>, << "\\ua72b" >>, << "\\ua72d" >>, << "\\ua72f" >>,
       << "\\ua733" >>, << "\\ua735" >>, << "\\ua737" >>, << "\\ua739" >>, << "\\ua73b" >>, << "\\ua73d" >>,
       << "\\ua73f" >>, << "\\ua741" >>, << "\\ua743" >>, << "\\ua745" >>, << "\\ua747" >>, << "\\ua749" >>,
       << "\\ua74b" >>, << "\\ua74d" >>, << "\\ua74f" >>, << "\\ua751" >>, << "\\ua753" >>, << "\\ua755" >>,
       << "\\ua757" >>, << "\\ua759" >>, << "\\ua75b" >>, << "\\ua75d" >>, << "\\ua75f" >>, << "\\ua761" >>,
       << "\\ua763" >>, << "\\ua765" >>, << "\\ua767" >>, << "\\ua769" >>, << "\\ua76b" >>, << "\\ua76d" >>,
       << "\\ua76f" >>, << "\\ua77a" >>, << "\\ua77c" >>, << "\\u1d79" >>, << "\\ua77f" >>, << "\\ua781" >>,
       << "\\ua783" >>, << "\\ua785" >>, << "\\ua787" >>, << "\\ua78c" >>, << "\\u0265" >>, << "\\ua791" >>,
       << "\\ua793" >>, << "\\ua797" >>, << "\\ua799" >>, << "\\ua79b" >>, << "\\ua79d" >>, << "\\ua79f" >>,
       << "\\ua7a1" >>, << "\\ua7a3" >>, << "\\ua7a5" >>, << "\\ua7a7" >>, << "\\ua7a9" >>, << "\\u0266" >>,
       << "\\u025c" >>, << "\\u0261" >>, << "\\u026c" >>, << "\\u026a" >>, << "\\u029e" >>, << "\\u0287" >>,
       << "\\u029d" >>, << "\\uab53" >>, << "\\ua7b5" >>, << "\\ua7b7" >>, << "\\ua7b9" >>, << "\\ua7bb" >>,
       << "\\ua7bd" >>, << "\\ua7bf" >>, << "\\ua7c1" >>, << "\\ua7c3" >>, << "\\ua794" >>, << "\\u0282" >>,
       << "\\u1d8e" >>, << "\\ua7c8" >>, << "\\ua7ca" >>, << "\\ua7d1" >>, << "\\ua7d7" >>, << "\\ua7d9" >>,
       << "\\ua7f6" >>, << "\\uff41" >>, << "\\uff42" >>, << "\\uff43" >>, << "\\uff44" >>, << "\\uff45" >>,
       << "\\uff46" >>, << "\\uff47" >>, << "\\uff48" >>, << "\\uff49" >>, << "\\uff4a" >>, << "\\uff4b" >>,
       << "\\uff4c" >>, << "\\uff4d" >>, << "\\uff4e" >>, << "\\uff4f" >>, << "\\uff50" >>, << "\\uff51" >>,
       << "\\uff52" >>, << "\\uff53" >>, << "\\uff54" >>, << "\\uff55" >>, << "\\uff56" >>, << "\\uff57" >>,
       << "\\uff58" >>, << "\\uff59" >>, << "\\uff5a" >>, << "\\U00010428" >>, << "\\U00010429" >>, << "\\U0001042a" >>,
       << "\\U0001042b" >>, << "\\U0001042c" >>, << "\\U0001042d" >>, << "\\U0001042e" >>, << "\\U0001042f" >>, << "\\U00010430" >>,
       << "\\U00010431" >>, << "\\U00010432" >>, << "\\U00010433" >>, << "\\U00010434" >>, << "\\U00010435" >>, << "\\U00010436" >>,
       << "\\U00010437" >>, << "\\U00010438" >>, << "\\U00010439" >>, << "\\U0001043a" >>, << "\\U0001043b" >>, << "\\U0001043c" >>,
       << "\\U0001043d" >>, << "\\U0001043e" >>, << "\\U0001043f" >>, << "\\U00010440" >>, << "\\U00010441" >>, << "\\U00010442" >>,
       << "\\U00010443" >>, << "\\U00010444" >>, << "\\U00010445" >>, << "\\U00010446" >>, << "\\U00010447" >>, << "\\U00010448" >>,
       << "\\U00010449" >>, << "\\U0001044a" >>, << "\\U0001044b" >>, << "\\U0001044c" >>, << "\\U0001044d" >>, << "\\U0001044e" >>,
       << "\\U0001044f" >>, << "\\U000104d8" >>, << "\\U000104d9" >>, << "\\U000104da" >>, << "\\U000104db" >>, << "\\U000104dc" >>,
       << "\\U000104dd" >>, << "\\U000104de" >>, << "\\U000104df" >>, << "\\U000104e0" >>, << "\\U000104e1" >>, << "\\U000104e2" >>,
       << "\\U000104e3" >>, << "\\U000104e4" >>, << "\\U000104e5" >>, << "\\U000104e6" >>, << "\\U000104e7" >>, << "\\U000104e8" >>,
       << "\\U000104e9" >>, << "\\U000104ea" >>, << "\\U000104eb" >>, << "\\U000104ec" >>, << "\\U000104ed" >>, << "\\U000104ee" >>,
       << "\\U000104ef" >>, << "\\U000104f0" >>, << "\\U000104f1" >>, << "\\U000104f2" >>, << "\\U000104f3" >>, << "\\U000104f4" >>,
       << "\\U000104f5" >>, << "\\U000104f6" >>, << "\\U000104f7" >>, << "\\U000104f8" >>, << "\\U000104f9" >>, << "\\U000104fa" >>,
       << "\\U000104fb" >>, << "\\U00010597" >>, << "\\U00010598" >>, << "\\U00010599" >>, << "\\U0001059a" >>, << "\\U0001059b" >>,
       << "\\U0001059c" >>, << "\\U0001059d" >>, << "\\U0001059e" >>, << "\\U0001059f" >>, << "\\U000105a0" >>, << "\\U000105a1" >>,
       << "\\U000105a3" >>, << "\\U000105a4" >>, << "\\U000105a5" >>, << "\\U000105a6" >>, << "\\U000105a7" >>, << "\\U000105a8" >>,
       << "\\U000105a9" >>, << "\\U000105aa" >>, << "\\U000105ab" >>, << "\\U000105ac" >>, << "\\U000105ad" >>, << "\\U000105ae" >>,
       << "\\U000105af" >>, << "\\U000105b0" >>, << "\\U000105b1" >>, << "\\U000105b3" >>, << "\\U000105b4" >>, << "\\U000105b5" >>,
       << "\\U000105b6" >>, << "\\U000105b7" >>, << "\\U000105b8" >>, << "\\U000105b9" >>, << "\\U000105bb" >>, << "\\U000105bc" >>,
       << "\\U00010cc0" >>, << "\\U00010cc1" >>, << "\\U00010cc2" >>, << "\\U00010cc3" >>, << "\\U00010cc4" >>, << "\\U00010cc5" >>,
       << "\\U00010cc6" >>, << "\\U00010cc7" >>, << "\\U00010cc8" >>, << "\\U00010cc9" >>, << "\\U00010cca" >>, << "\\U00010ccb" >>,
       << "\\U00010ccc" >>, << "\\U00010ccd" >>, << "\\U00010cce" >>, << "\\U00010ccf" >>, << "\\U00010cd0" >>, << "\\U00010cd1" >>,
       << "\\U00010cd2" >>, << "\\U00010cd3" >>, << "\\U00010cd4" >>, << "\\U00010cd5" >>, << "\\U00010cd6" >>, << "\\U00010cd7" >>,
       << "\\U00010cd8" >>, << "\\U00010cd9" >>, << "\\U00010cda" >>, << "\\U00010cdb" >>, << "\\U00010cdc" >>, << "\\U00010cdd" >>,
       << "\\U00010cde" >>, << "\\U00010cdf" >>, << "\\U00010ce0" >>, << "\\U00010ce1" >>, << "\\U00010ce2" >>, << "\\U00010ce3" >>,
       << "\\U00010ce4" >>, << "\\U00010ce5" >>, << "\\U00010ce6" >>, << "\\U00010ce7" >>, << "\\U00010ce8" >>, << "\\U00010ce9" >>,
       << "\\U00010cea" >>, << "\\U00010ceb" >>, << "\\U00010cec" >>, << "\\U00010ced" >>, << "\\U00010cee" >>, << "\\U00010cef" >>,
       << "\\U00010cf0" >>, << "\\U00010cf1" >>, << "\\U00010cf2" >>, << "\\U000118c0" >>, << "\\U000118c1" >>, << "\\U000118c2" >>,
       << "\\U000118c3" >>, << "\\U000118c4" >>, << "\\U000118c5" >>, << "\\U000118c6" >>, << "\\U000118c7" >>, << "\\U000118c8" >>,
       << "\\U000118c9" >>, << "\\U000118ca" >>, << "\\U000118cb" >>, << "\\U000118cc" >>, << "\\U000118cd" >>, << "\\U000118ce" >>,
       << "\\U000118cf" >>, << "\\U000118d0" >>, << "\\U000118d1" >>, << "\\U000118d2" >>, << "\\U000118d3" >>, << "\\U000118d4" >>,
       << "\\U000118d5" >>, << "\\U000118d6" >>, << "\\U000118d7" >>, << "\\U000118d8" >>, << "\\U000118d9" >>, << "\\U000118da" >>,
       << "\\U000118db" >>, << "\\U000118dc" >>, << "\\U000118dd" >>, << "\\U000118de" >>, << "\\U000118df" >>, << "\\U00016e60" >>,
       << "\\U00016e61" >>, << "\\U00016e62" >>, << "\\U00016e63" >>, << "\\U00016e64" >>, << "\\U00016e65" >>, << "\\U00016e66" >>,
       << "\\U00016e67" >>, << "\\U00016e68" >>, << "\\U00016e69" >>, << "\\U00016e6a" >>, << "\\U00016e6b" >>, << "\\U00016e6c" >>,
       << "\\U00016e6d" >>, << "\\U00016e6e" >>, << "\\U00016e6f" >>, << "\\U00016e70" >>, << "\\U00016e71" >>, << "\\U00016e72" >>,
       << "\\U00016e73" >>, << "\\U00016e74" >>, << "\\U00016e75" >>, << "\\U00016e76" >>, << "\\U00016e77" >>, << "\\U00016e78" >>,
       << "\\U00016e79" >>, << "\\U00016e7a" >>, << "\\U00016e7b" >>, << "\\U00016e7c" >>, << "\\U00016e7d" >>, << "\\U00016e7e" >>,
       << "\\U00016e7f" >>, << "\\U0001e922" >>, << "\\U0001e923" >>, << "\\U0001e924" >>, << "\\U0001e925" >>, << "\\U0001e926" >>,
       << "\\U0001e927" >>, << "\\U0001e928" >>, << "\\U0001e929" >>, << "\\U0001e92a" >>, << "\\U0001e92b" >>, << "\\U0001e92c" >>,
       << "\\U0001e92d" >>, << "\\U0001e92e" >>, << "\\U0001e92f" >>, << "\\U0001e930" >>, << "\\U0001e931" >>, << "\\U0001e932" >>,
       << "\\U0001e933" >>, << "\\U0001e934" >>, << "\\U0001e935" >>, << "\\U0001e936" >>, << "\\U0001e937" >>, << "\\U0001e938" >>,
       << "\\U0001e939" >>, << "\\U0001e93a" >>, << "\\U0001e93b" >>, << "\\U0001e93c" >>, << "\\U0001e93d" >>, << "\\U0001e93e" >>,
       << "\\U0001e93f" >>, << "\\U0001e940" >>, << "\\U0001e941" >>, << "\\U0001e942" >>, << "\\U0001e943" >> >>
LowerTable == [c \in Range(Cased) |-> Lowered[IndexOf(Cased, c)]]

\* A variant of LowerChar that leaves every character as it is.
LowerCharIdentity(c) == <<c>>

\* str.lower() of a one-character string.
LowerChar(c) == IF c \in DOMAIN LowerTable THEN LowerTable[c] ELSE <<c>>

\* str.lower() of a string: each character lowered on its own, except the
\* capital sigma U+03A3, which becomes the final sigma U+03C2 at the end of a
\* word. As the first character of the string it is never at the end of a
\* word; anywhere else the answer depends on which of its neighbours are
\* cased, and the model gives none.
CapitalSigma == "\\u03a3"
LowerAt(s, i) ==
    IF s[i] = CapitalSigma /\ i > 1
    THEN CHOOSE lowered \in {} : TRUE
    ELSE LowerChar(s[i])
RECURSIVE LowerFrom(_, _)
LowerFrom(s, i) == IF i > Len(s) THEN <<>> ELSE LowerAt(s, i) \o LowerFrom(s, i + 1)
Lower(s) == LowerFrom(s, 1)

\* str.strip(): the characters of a set dropped from the left end, from the
\* right end, and (Strip, below) whitespace dropped from both.
RECURSIVE LStripOf(_, _)
LStripOf(s, chars) ==
    IF s # <<>> /\ Head(s) \in chars THEN LStripOf(Tail(s), chars) ELSE s
RECURSIVE RStripOf(_, _)
RStripOf(s, chars) ==
    IF s # <<>> /\ s[Len(s)] \in chars
    THEN RStripOf(SubSeq(s, 1, Len(s) - 1), chars) ELSE s
LStrip(s) == LStripOf(s, Whitespace)
RStrip(s) == RStripOf(s, Whitespace)
\* A variant of Strip that leaves the string as it was typed.
StripNothing(s) == s

Strip(s) == RStrip(LStrip(s))

\* str.startswith(prefix)
StartsWith(s, prefix) == Len(s) >= Len(prefix) /\ SubSeq(s, 1, Len(prefix)) = prefix

\* int(s) for a str: whitespace stripped, an optional sign, then decimal
\* digits of any script in which single underscores may stand between
\* digits; anything else raises ValueError.
AllDecimalDigits == UNION { Range(row) : row \in Range(DecimalDigits) }
DigitValue(c) ==
    LET row == CHOOSE r \in Range(DecimalDigits) : c \in Range(r)
    IN  IndexOf(row, c) - 1

RECURSIVE DecimalValue(_)
DecimalValue(digits) ==
    IF digits = <<>> THEN 0
    ELSE 10 * DecimalValue(SubSeq(digits, 1, Len(digits) - 1))
         + DigitValue(digits[Len(digits)])

IsDecimal(body) ==
    /\ body # <<>>
    /\ \A i \in DOMAIN body : body[i] \in AllDecimalDigits \cup {"_"}
    /\ body[1] # "_" /\ body[Len(body)] # "_"
    /\ \A i \in 1..(Len(body) - 1) : ~(body[i] = "_" /\ body[i + 1] = "_")

IsDigit(c) == c # "_"

ParseInt(s) ==
    LET t == RStripOf(LStripOf(s, IntWhitespace), IntWhitespace)
        signed == t # <<>> /\ Head(t) \in {"+", "-"}
        body == IF signed THEN Tail(t) ELSE t
        magnitude == DecimalValue(SelectSeq(body, IsDigit))
    IN  IF IsDecimal(body)
        THEN Ok("int", IF signed /\ Head(t) = "-" THEN 0 - magnitude ELSE magnitude)
        ELSE Exc("int", "ValueError")

\* str(n) of a natural number.
RECURSIVE Decimal(_)
Decimal(n) ==
    IF n < 10 THEN <<Digits[n + 1]>>
    ELSE Append(Decimal(n \div 10), Digits[(n % 10) + 1])

\* ------------------------------------------------------------------ configuration

\* The values a configuration mapping holds: a str, an int or None.
Str(s) == [type |-> "str", val |-> s]
Int_(n) == [type |-> "int", val |-> n]
PyNone == [type |-> "NoneType"]

\* bool(v)
Truthy(v) ==
    CASE v.type = "str" -> v.val # <<>>
      [] v.type = "int" -> v.val # 0
      [] OTHER -> FALSE

\* load_dotenv(env_file): the file's assignments enter os.environ, except for
\* the variables that are set already.
LoadDotenv(env, file) == IF file = <<>> THEN env ELSE env @@ file[1]

\* A variant of GetEnvVar that hands back the empty string for a variable
\* that is unset and has no default.
GetEnvVarLenient(env, key, default) ==
    Ok("get_env_var", IF key \in DOMAIN env THEN env[key]
                      ELSE IF default # <<>> THEN default[1] ELSE <<>>)

\* get_env_var(key, default): default is <<>> for None, <<s>> for the str s.
GetEnvVar(env, key, default) ==
    LET value == IF key \in DOMAIN env THEN <<env[key]>> ELSE default
    IN  IF value = <<>>
        THEN Exc("get_env_var", "ValueError")
        ELSE Ok("get_env_var", value[1])

\* The defaults load_config() passes to get_env_var.
DefaultAgentName == << "c", "l", "a", "u", "d", "e", "-", "a", "g", "e", "n", "t" >>
DefaultAgentVersion == << "1", ".", "0", ".", "0" >>
DefaultLogLevel == << "I", "N", "F", "O" >>
DefaultPort == << "3", "0", "0", "0" >>
DefaultHost == << "l", "o", "c", "a", "l", "h", "o", "s", "t" >>

\* A variant of PortValue that keeps the port as the string it was read as.
PortValueRaw(s) == Ok("str", s)

\* int(get_env_var("MCP_SERVER_PORT", "3000"))
PortValue(s) == ParseInt(s)

\* load_config(config_dir): os.environ as load_dotenv leaves it, and the
\* mapping returned or the ValueError raised. The entries of the mapping are
\* evaluated in order, so the first failing one raises.
LoadConfig(env, file) ==
    LET e == LoadDotenv(env, file)
        key == GetEnvVar(e, "ANTHROPIC_API_KEY", <<>>)
        name == GetEnvVar(e, "AGENT_NAME", <<DefaultAgentName>>)
        version == GetEnvVar(e, "AGENT_VERSION", <<DefaultAgentVersion>>)
        level == GetEnvVar(e, "LOG_LEVEL", <<DefaultLogLevel>>)
        port == PortValue(GetEnvVar(e, "MCP_SERVER_PORT", <<DefaultPort>>).val)
        host == GetEnvVar(e, "MCP_SERVER_HOST", <<DefaultHost>>)
    IN  [ environ |-> e,
          ret |-> IF key.kind = "exc" \/ port.kind = "exc"
                  THEN Exc("load_config", "ValueError")
                  ELSE Ok("load_config",
                          [ anthropic_api_key |-> Str(key.val),
                            agent_name |-> Str(name.val),
                            agent_version |-> Str(version.val),
                            log_level |-> Str(level.val),
                            mcp_server_port |-> [type |-> port.fn, val |-> port.val],
                            mcp_server_host |-> Str(host.val) ]) ]

\* ------------------------------------------------------------------ validation

\* validate_api_key: the prefix and the minimum length.
ApiKeyPrefix == << "s", "k", "-", "a", "n", "t", "-" >>
MinKeyLength == 20

\* A variant of ValidateApiKey that wants more than the minimum length.
ValidateApiKeyLonger(api_key) ==
    StartsWith(api_key, ApiKeyPrefix) /\ Len(api_key) > MinKeyLength

ValidateApiKey(api_key) ==
    IF ~StartsWith(api_key, ApiKeyPrefix) THEN FALSE
    ELSE IF Len(api_key) < MinKeyLength THEN FALSE
    ELSE TRUE

\* re.match(r"^[a-zA-Z0-9_-]+$", name): one or more characters of the class
\* from the start of the string, up to its end or up to a newline that ends
\* the string ($ matches before a trailing newline).
NameChars == Range(LowerCase) \cup Range(UpperCase) \cup Range(Digits) \cup {"_", "-"}
NameMatches(name) ==
    \E n \in 1..Len(name) :
        /\ \A i \in 1..n : name[i] \in NameChars
        /\ \/ n = Len(name)
           \/ n = Len(name) - 1 /\ name[Len(name)] = "\n"

\* The port range of validate_config.
MinPort == 1
MaxPort == 65535

\* not isinstance(port, int) or port < 1 or port > 65535
PortInvalid(port) ==
    \/ port.type # "int"
    \/ port.val < MinPort
    \/ port.val > MaxPort

\* if config.get("mcp_server_port"): the port is checked when it is truthy.
PortChecked(value) == Truthy(value)

RequiredFields == << "anthropic_api_key", "agent_name" >>

\* The loop over required_fields: one error per field that is missing or falsy.
RECURSIVE MissingFields(_, _)
MissingFields(cfg, fields) ==
    IF fields = <<>> THEN <<>>
    ELSE (IF ~Truthy(ConfigGet(cfg, Head(fields), PyNone))
          THEN << "Missing required field: " \o Head(fields) >>
          ELSE <<>>)
         \o MissingFields(cfg, Tail(fields))

\* validate_config(config): the list of errors, in the order of the checks.
\* A truthy api key or agent name that is not a str makes the str method or
\* the regular expression raise.
ValidateConfig(cfg) ==
    LET key == ConfigGet(cfg, "anthropic_api_key", PyNone)
        name == ConfigGet(cfg, "agent_name", PyNone)
        port == ConfigGet(cfg, "mcp_server_port", PyNone)
    IN  IF Truthy(key) /\ key.type # "str"
        THEN Exc("validate_config", "AttributeError")
        ELSE IF Truthy(name) /\ name.type # "str"
        THEN Exc("validate_config", "TypeError")
        ELSE Ok("validate_config",
                MissingFields(cfg, RequiredFields)
                \o (IF Truthy(key) /\ ~ValidateApiKey(key.val)
                    THEN << "Invalid Anthropic API key format" >> ELSE <<>>)
                \o (IF Truthy(name) /\ ~NameMatches(name.val)
                    THEN << "Agent name must contain only alphanumeric characters, hyphens, and underscores" >>
                    ELSE <<>>)
                \o (IF PortChecked(port) /\ PortInvalid(port)
                    THEN << "MCP server port must be between 1 and 65535" >> ELSE <<>>))

\* ------------------------------------------------------------------ construction

\* The connect() calls made since the last disconnect() call, or since
\* construction: how many, what they did, how the first handshake ended.
NoRun == [connects |-> 0, handshakes |-> 0, options |-> 0, clients |-> 0, first |-> "none"]

\* A key of a mapping, or a file, that may be missing: <<>>, or <<v>> for
\* the value v.
Optional(S) == {<<>>} \cup {<<v>> : v \in S}

\* The contents of a config.yaml that holds the given keys.
ConfigYaml(name, static) ==
    (IF name = <<>> THEN <<>> ELSE "name" :> name[1])
    @@ (IF static = <<>> THEN <<>> ELSE "allowed_tools" :> static[1])

\* The config.yaml files an agent's directory may hold; an empty file is the
\* empty mapping.
ConfigFiles ==
    { <<ConfigYaml(name, static)>> : name \in Optional(ConfigNames),
                                     static \in Optional(StaticLists) }

\* A variant of LoadAgentConfig that falls back to a built-in configuration
\* when there is no config.yaml.
LoadAgentConfigBuiltIn(file) ==
    IF file = <<>> THEN "name" :> "agent"
    ELSE [k \in DOMAIN file[1] |-> IF k = "allowed_tools" THEN 1 ELSE file[1][k]]

\* _load_agent_config(): the mapping parsed from config.yaml, or the empty
\* mapping when the file does not exist. A list value is an object of its
\* own: the mapping holds its reference, the first on the heap.
LoadAgentConfig(file) ==
    IF file = <<>> THEN <<>>
    ELSE [k \in DOMAIN file[1] |-> IF k = "allowed_tools" THEN 1 ELSE file[1][k]]
LoadHeap(file) ==
    IF file # <<>> /\ "allowed_tools" \in DOMAIN file[1]
    THEN <<file[1]["allowed_tools"]>> ELSE <<>>

\* BaseClaudeAgent(config_dir): load_config() first, then the static
\* configuration. When load_config() raises, so does the constructor, and
\* there is no instance.
Construct(env, envfile, file) ==
    LET loaded == LoadConfig(env, envfile)
    IN  [ environ |-> loaded.environ,
          ret |-> IF loaded.ret.kind = "exc"
                  THEN Exc("__init__", loaded.ret.val)
                  ELSE Ok("__init__", None),
          config |-> loaded.ret.val,
          agent_config |-> LoadAgentConfig(file),
          heap |-> LoadHeap(file) ]

\* An API key as the repository's tests write one.
ValidKey ==
    << "s", "k", "-", "a", "n", "t", "-", "v", "a", "l", "i", "d", "-",
       "k", "e", "y", "-", "1", "2", "3", "4", "5" >>

\* The environment of the runs that start from a constructed agent.
AgentEnviron == "ANTHROPIC_API_KEY" :> ValidKey

\* No tool has been called.
NoCall == [tool |-> "none"]

\* A JSON file of the data directory: not there, written in part (opened
\* for writing, which truncates it, and the dump failed), or written whole
\* with the store dumped last. What json.load returns of a whole file is
\* what json.dump was given: the ids are str, the values str, int, list and
\* None.
Absent == [state |-> "absent"]
Partial == [state |-> "partial"]
Whole(data) == [state |-> "whole", data |-> data]
StoreNames == {"clients", "projects", "tasks"}
NoFiles == [name \in StoreNames |-> Absent]

\* _load_data(file_path, default): the parsed file, or the default when the
\* file does not exist or when opening or parsing it raises.
LoadData(file, readable, default) ==
    IF file.state = "whole" /\ readable THEN file.data ELSE default

\* _save_data(file_path, data): the file it leaves. An exception is logged
\* and swallowed: open() failed and the file is as it was, or the dump
\* failed after open() truncated the file.
SaveOutcomes == {"written", "unopened", "truncated"}
SaveData(file, data, outcome) ==
    IF outcome = "written" THEN Whole(data)
    ELSE IF outcome = "truncated" THEN Partial
    ELSE file

\* AdAgencyProjectManager.__init__ on a data directory: each store is
\* loaded from its own file, {} for one that cannot be loaded; readable
\* tells for each file whether reading it succeeds. The record keeps, beside
\* the stores and the files, the last tool call, the stores as loaded, the
\* number of ids uuid4() has returned and of saves and reads that failed,
\* and whether the program was started before.
InitAgency(files, readable, issued, faults, restarted) ==
    LET loaded == [name \in StoreNames |-> LoadData(files[name], readable[name], <<>>)]
    IN  [ clients |-> loaded.clients, projects |-> loaded.projects, tasks |-> loaded.tasks,
          last |-> NoCall, files |-> files, loaded |-> loaded,
          issued |-> issued, faults |-> faults, restarted |-> restarted ]

\* The manager constructed on a new data directory.
NewAgency == InitAgency(NoFiles, [name \in StoreNames |-> TRUE], 0, 0, FALSE)

\* AzureComplianceAgent.__init__: no checklist, no results; no report has
\* been written. The checklist is <<>> for None and <<mapping>> otherwise.
NewCompliance ==
    [current_checklist |-> <<>>, compliance_results |-> <<>>, reports |-> <<>>, last |-> NoCall]

NoHist ==
    [ calls |-> 0, handshakes |-> 0, failures |-> 0, teardowns |-> 0, closed |-> 0,
      looped |-> FALSE, cancelled |-> FALSE, run |-> NoRun ]

\* The state after BaseClaudeAgent(config_dir) has returned, for a directory
\* with a config.yaml and no .env file.
Init ==
    /\ config_yaml \in ConfigFiles
    /\ env_file = <<>>
    /\ LET made == Construct(AgentEnviron, env_file, config_yaml)
       IN  /\ made.ret.kind = "ok"
           /\ environ = made.environ
           /\ config = made.config
           /\ agent_config = made.agent_config
           /\ heap = made.heap
    /\ custom_tools \in ToolLists
    /\ client = None
    /\ is_connected = FALSE
    /\ clients = <<>>
    /\ built = <<>>
    /\ stack = [t \in Tasks |-> <<[fn |-> "main", pc |-> "ready"]>>]
    /\ ret = [t \in Tasks |-> NoRet]
    /\ sent = <<>>
    /\ underlying = [t \in Tasks |-> NoStream]
    /\ hist = NoHist
    /\ agency = NewAgency
    /\ compliance = NewCompliance

\* ------------------------------------------------------------------ callers

\* A caller may start an operation at top level or inside a bracket body.
CanCall(t) ==
    /\ hist.calls < MaxCalls
    /\ \/ Running(t, "main", "ready")
       \/ Running(t, "with", "body")

\* What an operation's caller can tell afterwards: the handshakes started,
\* the handshakes failed, the prompts sent, the teardowns started and
\* finished and the operations started so far, whether the interactive loop
\* has run, and the flag and the client reference, all noted when the
\* operation starts.
Mark ==
    [ handshakes |-> hist.handshakes, failures |-> hist.failures, prompts |-> Len(sent),
      teardowns |-> hist.teardowns, closed |-> hist.closed, calls |-> hist.calls,
      looped |-> hist.looped, connected |-> is_connected, client |-> client ]

\* The caller awaits the coroutine f.
Start(t, f) ==
    /\ CanCall(t)
    /\ stack' = [stack EXCEPT ![t] = <<f @@ [mark |-> Mark]>> \o @]
    /\ ret' = [ret EXCEPT ![t] = NoRet]
    /\ underlying' = [underlying EXCEPT ![t] = NoStream]
    /\ hist' = [hist EXCEPT !.calls = @ + 1]

\* The coroutine on top finishes, handing r to its caller; an operation that
\* a caller started is handed back with what happened since its start.
Handed(t, r, h) ==
    IF "mark" \in DOMAIN Top(t)
    THEN r @@ [ handshakes |-> h.handshakes - Top(t).mark.handshakes,
                failures |-> h.failures - Top(t).mark.failures,
                prompts |-> Len(sent) - Top(t).mark.prompts,
                teardowns |-> h.teardowns - Top(t).mark.teardowns,
                closed |-> h.closed - Top(t).mark.closed,
                calls |-> h.calls - Top(t).mark.calls - 1,
                looped |-> h.looped /\ ~Top(t).mark.looped,
                was_connected |-> Top(t).mark.connected,
                had_client |-> Top(t).mark.client ]
    ELSE r

Finish(t, r) ==
    /\ stack' = Pop(t)
    /\ ret' = [ret EXCEPT ![t] = Handed(t, r, hist)]

CallConnect(t) ==
    /\ Start(t, [fn |-> "connect", pc |-> "start"])
    /\ UNCHANGED << agency, compliance, environ, env_file, config, config_yaml, agent_config, heap, custom_tools, client, is_connected,
                    clients, built, sent >>

CallDisconnect(t) ==
    /\ Start(t, [fn |-> "disconnect", pc |-> "start"])
    /\ UNCHANGED << agency, compliance, environ, env_file, config, config_yaml, agent_config, heap, custom_tools, client, is_connected,
                    clients, built, sent >>

\* A direct call of get_agent_options().
CallGetAgentOptions(t) ==
    /\ CanCall(t)
    /\ LET r == GetAgentOptions(agent_config, heap, custom_tools)
       IN  /\ heap' = r.heap
           /\ built' = Append(built, Built(agent_config, heap, r))
           /\ ret' = [ret EXCEPT ![t] = Ok("get_agent_options", r.options)]
    /\ underlying' = [underlying EXCEPT ![t] = NoStream]
    /\ hist' = [hist EXCEPT !.calls = @ + 1]
    /\ UNCHANGED << agency, compliance, environ, env_file, config, config_yaml, agent_config, custom_tools, client, is_connected, clients,
                    stack, sent >>

\* ------------------------------------------------------------------ connect

\* connect() up to its await: the early return, or options, client and the
\* start of the handshake.
\* A variant of AlreadyConnected without the early return.
AlreadyConnectedIgnored == FALSE

\* A variant of AlreadyConnected that takes a client made earlier for a
\* live session.
AlreadyConnectedOnceMade == client # None

\* The guard of connect(): self.is_connected.
AlreadyConnected == is_connected

ConnectStart(t) ==
    /\ Running(t, "connect", "start")
    /\ IF AlreadyConnected
       THEN /\ Finish(t, Ok(Top(t).fn, None))
            /\ hist' = [hist EXCEPT !.run.connects = @ + 1]
            /\ UNCHANGED << heap, built, clients, client >>
       ELSE LET r == GetAgentOptions(agent_config, heap, custom_tools)
                c == Len(clients) + 1
            IN  /\ heap' = r.heap
                /\ built' = Append(built, Built(agent_config, heap, r))
                /\ clients' = Append(clients, [ options |-> r.options,
                                                state |-> "connecting",
                                                closes |-> 0 ])
                /\ client' = c
                /\ hist' = [hist EXCEPT !.handshakes = @ + 1,
                                        !.run.connects = @ + 1,
                                        !.run.handshakes = @ + 1,
                                        !.run.options = @ + 1,
                                        !.run.clients = @ + 1]
                /\ stack' = SetTop(t, [Top(t) EXCEPT !.pc = "handshake"] @@ [c |-> c])
                /\ UNCHANGED ret
    /\ UNCHANGED << agency, compliance, environ, env_file, config, config_yaml, agent_config, custom_tools, is_connected, sent, underlying >>

\* await self.client.connect() returns.
ConnectHandshakeOk(t) ==
    /\ Running(t, "connect", "handshake")
    /\ clients' = [clients EXCEPT ![Top(t).c].state = "open"]
    /\ is_connected' = TRUE
    /\ hist' = [hist EXCEPT !.run.first = IF @ = "none" THEN "ok" ELSE @]
    /\ Finish(t, Ok(Top(t).fn, None))
    /\ UNCHANGED << agency, compliance, environ, env_file, config, config_yaml, agent_config, heap, custom_tools, client, built,
                    sent, underlying >>

\* await self.client.connect() raises.
ConnectHandshakeFail(t) ==
    /\ Running(t, "connect", "handshake")
    /\ clients' = [clients EXCEPT ![Top(t).c].state = "failed"]
    /\ hist' = [hist EXCEPT !.failures = @ + 1,
                            !.run.first = IF @ = "none" THEN "failed" ELSE @]
    /\ stack' = Pop(t)
    /\ ret' = [ret EXCEPT ![t] = Handed(t, Exc("connect", "ConnectError"), hist')]
    /\ UNCHANGED << agency, compliance, environ, env_file, config, config_yaml, agent_config, heap, custom_tools, client, is_connected,
                    built, sent, underlying >>

\* ------------------------------------------------------------------ disconnect

\* A variant of DisconnectGuard that tests the client alone.
DisconnectGuardClientOnly == client # None

\* The guard of disconnect(): self.client and self.is_connected.
DisconnectGuard == client # None /\ is_connected

\* A variant of FlagAfterTeardown that clears the flag whether or not the
\* teardown raised.
FlagClearedAnyway(raised) == FALSE

\* The connected flag after `await self.client.disconnect()`: the assignment
\* `self.is_connected = False` follows the await and is skipped when it raises.
FlagAfterTeardown(raised) == IF raised THEN is_connected ELSE FALSE

\* disconnect() up to its await.
DisconnectStart(t) ==
    /\ Running(t, "disconnect", "start")
    /\ IF DisconnectGuard
       THEN /\ hist' = [hist EXCEPT !.teardowns = @ + 1, !.run = NoRun]
            /\ UNCHANGED clients
            /\ stack' = SetTop(t, [Top(t) EXCEPT !.pc = "teardown"] @@ [c |-> client])
            /\ UNCHANGED ret
       ELSE /\ Finish(t, Ok(Top(t).fn, None))
            /\ hist' = [hist EXCEPT !.run = NoRun]
            /\ UNCHANGED clients
    /\ UNCHANGED << agency, compliance, environ, env_file, config, config_yaml, agent_config, heap, custom_tools, client, is_connected,
                    built, sent, underlying >>

\* await self.client.disconnect() returns.
DisconnectTeardownOk(t) ==
    /\ Running(t, "disconnect", "teardown")
    /\ clients' = [clients EXCEPT ![Top(t).c].state = "closed", ![Top(t).c].closes = @ + 1]
    /\ is_connected' = FlagAfterTeardown(FALSE)
    /\ hist' = [hist EXCEPT !.closed = @ + 1]
    /\ stack' = Pop(t)
    /\ ret' = [ret EXCEPT ![t] = Handed(t, Ok(Top(t).fn, None), hist')]
    /\ UNCHANGED << agency, compliance, environ, env_file, config, config_yaml, agent_config, heap, custom_tools, client, built, sent,
                    underlying >>

\* await self.client.disconnect() raises.
DisconnectTeardownFail(t) ==
    /\ Running(t, "disconnect", "teardown")
    /\ is_connected' = FlagAfterTeardown(TRUE)
    /\ Finish(t, Exc("disconnect", "TeardownError"))
    /\ UNCHANGED << agency, compliance, environ, env_file, config, config_yaml, agent_config, heap, custom_tools, client,
                    clients, built, sent, underlying, hist >>

\* ------------------------------------------------------------------ query

\* A variant of QueryYield that wraps the content of whatever it received in
\* an assistant message.
QueryYieldRewrapped(m) == AssistantMessage(m.content)

\* What the generator hands to its consumer for the message it received:
\* `yield message`.
QueryYield(m) == m

\* The generator on top suspends or finishes: its frame goes back into the
\* consumer's frame below it, and the consumer receives r.
Suspend(t, g, r) ==
    /\ stack' = [stack EXCEPT ![t] = <<[@[2] EXCEPT !.gen = g]>> \o Tail(Tail(@))]
    /\ ret' = [ret EXCEPT ![t] = r]

\* await self.client.query(prompt) is started: on the client the instance
\* holds at that moment.
QuerySend(t) ==
    IF client = None
    THEN /\ Suspend(t, [Top(t) EXCEPT !.pc = "done"], Exc("query", "AttributeError"))
         /\ UNCHANGED << sent, underlying >>
    ELSE /\ sent' = Append(sent, [ prompt |-> Top(t).prompt,
                                   client |-> client,
                                   connected |-> is_connected,
                                   session |-> clients[client].state,
                                   connects |-> Top(t).connects ])
         /\ underlying' = [underlying EXCEPT ![t] = NoStream]
         /\ stack' = SetTop(t, [Top(t) EXCEPT !.pc = "sending"])
         /\ UNCHANGED ret

\* A variant of NeedsConnect that never connects.
NeedsConnectNever == FALSE

\* The guard of query(): not self.is_connected.
NeedsConnect == ~is_connected

\* The generator is advanced for the first time: connect() when the flag is
\* false, else straight to the send.
QueryStart(t) ==
    /\ Running(t, "query", "start")
    /\ IF NeedsConnect
       THEN /\ stack' = Call(t, [Top(t) EXCEPT !.pc = "connecting", !.connects = @ + 1],
                             [fn |-> "connect", pc |-> "start"])
            /\ UNCHANGED << ret, sent, underlying >>
       ELSE QuerySend(t)
    /\ UNCHANGED << agency, compliance, environ, env_file, config, config_yaml, agent_config, heap, custom_tools, client, is_connected,
                    clients, built, hist >>

\* A variant of ConnectRaised in which the generator swallows the error.
ConnectRaisedSwallowed(r) == FALSE

\* Whether `await self.connect()` raised into the generator.
ConnectRaised(r) == r.kind = "exc"

\* connect() returned to the generator: the prompt is sent.
QueryConnected(t) ==
    /\ Running(t, "query", "connecting")
    /\ ~ConnectRaised(ret[t])
    /\ QuerySend(t)
    /\ UNCHANGED << agency, compliance, environ, env_file, config, config_yaml, agent_config, heap, custom_tools, client, is_connected,
                    clients, built, hist >>

\* connect() raised into the generator: the error leaves the generator.
QueryConnectFailed(t) ==
    /\ Running(t, "query", "connecting")
    /\ ConnectRaised(ret[t])
    /\ Suspend(t, [Top(t) EXCEPT !.pc = "done"], Exc("query", ret[t].val))
    /\ UNCHANGED << agency, compliance, environ, env_file, config, config_yaml, agent_config, heap, custom_tools, client, is_connected,
                    clients, built, sent, underlying, hist >>

\* await self.client.query(prompt) returns.
QuerySendOk(t) ==
    /\ Running(t, "query", "sending")
    /\ stack' = SetTop(t, [Top(t) EXCEPT !.pc = "receiving"])
    /\ UNCHANGED << agency, compliance, environ, env_file, config, config_yaml, agent_config, heap, custom_tools, client, is_connected,
                    clients, built, ret, sent, underlying, hist >>

\* await self.client.query(prompt) raises.
QuerySendFail(t) ==
    /\ Running(t, "query", "sending")
    /\ Suspend(t, [Top(t) EXCEPT !.pc = "done"], Exc("query", "QueryError"))
    /\ UNCHANGED << agency, compliance, environ, env_file, config, config_yaml, agent_config, heap, custom_tools, client, is_connected,
                    clients, built, sent, underlying, hist >>

\* receive_response() yields m, and the generator yields it on.
QueryReceive(t) ==
    /\ Running(t, "query", "receiving")
    /\ Len(underlying[t].msgs) < MaxStream
    /\ \E m \in Messages :
          /\ underlying' = [underlying EXCEPT ![t].msgs = Append(@, m)]
          /\ Suspend(t, Top(t), Yield(QueryYield(m)))
    /\ UNCHANGED << agency, compliance, environ, env_file, config, config_yaml, agent_config, heap, custom_tools, client, is_connected,
                    clients, built, sent, hist >>

\* receive_response() ends, and so does the generator.
QueryEnd(t) ==
    /\ Running(t, "query", "receiving")
    /\ underlying' = [underlying EXCEPT ![t].ended = TRUE]
    /\ Suspend(t, [Top(t) EXCEPT !.pc = "done"], StopAsyncIteration)
    /\ UNCHANGED << agency, compliance, environ, env_file, config, config_yaml, agent_config, heap, custom_tools, client, is_connected,
                    clients, built, sent, hist >>

\* receive_response() raises.
QueryReceiveFail(t) ==
    /\ Running(t, "query", "receiving")
    /\ Suspend(t, [Top(t) EXCEPT !.pc = "done"], Exc("query", "StreamError"))
    /\ UNCHANGED << agency, compliance, environ, env_file, config, config_yaml, agent_config, heap, custom_tools, client, is_connected,
                    clients, built, sent, underlying, hist >>

\* query(prompt): the generator object, whose body has not started.
Query(prompt) == [fn |-> "query", pc |-> "start", prompt |-> prompt, connects |-> 0]

\* `async for` asks the generator of the frame on top for its next message.
Advance(t, pc) ==
    /\ stack' = Call(t, [Top(t) EXCEPT !.pc = pc], Top(t).gen)
    /\ ret' = [ret EXCEPT ![t] = NoRet]

\* A caller iterates query(prompt) itself and keeps what it is given.
CallQuery(t) ==
    /\ \E p \in Prompts :
          Start(t, [fn |-> "iterate", pc |-> "next", gen |-> Query(p), got |-> <<>>])
    /\ UNCHANGED << agency, compliance, environ, env_file, config, config_yaml, agent_config, heap, custom_tools, client, is_connected,
                    clients, built, sent >>

IterateNext(t) ==
    /\ Running(t, "iterate", "next")
    /\ Advance(t, "wait")
    /\ UNCHANGED << agency, compliance, environ, env_file, config, config_yaml, agent_config, heap, custom_tools, client, is_connected,
                    clients, built, sent, underlying, hist >>

IterateGot(t) ==
    /\ Running(t, "iterate", "wait")
    /\ ret[t].kind = "yield"
    /\ stack' = SetTop(t, [Top(t) EXCEPT !.pc = "next", !.got = Append(@, ret[t].val)])
    /\ UNCHANGED << agency, compliance, environ, env_file, config, config_yaml, agent_config, heap, custom_tools, client, is_connected,
                    clients, built, ret, sent, underlying, hist >>

IterateEnd(t) ==
    /\ Running(t, "iterate", "wait")
    /\ ret[t].kind \in {"stop", "exc"}
    /\ Finish(t, IF ret[t].kind = "stop"
                 THEN Ok("iterate", Top(t).got)
                 ELSE Exc("iterate", ret[t].val))
    /\ UNCHANGED << agency, compliance, environ, env_file, config, config_yaml, agent_config, heap, custom_tools, client, is_connected,
                    clients, built, sent, underlying, hist >>

\* ------------------------------------------------------------------ process_message

\* The inner loop: the text of every TextBlock of the content, in order.
RECURSIVE AppendTexts(_, _)
AppendTexts(parts, content) ==
    IF content = <<>> THEN parts
    ELSE AppendTexts(IF Head(content).type = "TextBlock"
                     THEN Append(parts, Head(content).text)
                     ELSE parts,
                     Tail(content))

\* A variant of CollectParts without the test for an assistant message.
CollectPartsAnyMessage(parts, msg) == AppendTexts(parts, msg.content)

\* The body of the outer loop for one message.
CollectParts(parts, msg) ==
    IF msg.type = "AssistantMessage" THEN AppendTexts(parts, msg.content) ELSE parts

\* "\n".join(response_parts)
RECURSIVE JoinLines(_)
JoinLines(parts) ==
    IF parts = <<>> THEN ""
    ELSE IF Len(parts) = 1 THEN parts[1]
    ELSE parts[1] \o "\n" \o JoinLines(Tail(parts))

CallProcessMessage(t) ==
    /\ \E p \in Prompts :
          Start(t, [fn |-> "process_message", pc |-> "next", gen |-> Query(p),
                    response_parts |-> <<>>])
    /\ UNCHANGED << agency, compliance, environ, env_file, config, config_yaml, agent_config, heap, custom_tools, client, is_connected,
                    clients, built, sent >>

ProcessNext(t) ==
    /\ Running(t, "process_message", "next")
    /\ Advance(t, "wait")
    /\ UNCHANGED << agency, compliance, environ, env_file, config, config_yaml, agent_config, heap, custom_tools, client, is_connected,
                    clients, built, sent, underlying, hist >>

ProcessGot(t) ==
    /\ Running(t, "process_message", "wait")
    /\ ret[t].kind = "yield"
    /\ stack' = SetTop(t, [Top(t) EXCEPT !.pc = "next",
                                         !.response_parts = CollectParts(@, ret[t].val)])
    /\ UNCHANGED << agency, compliance, environ, env_file, config, config_yaml, agent_config, heap, custom_tools, client, is_connected,
                    clients, built, ret, sent, underlying, hist >>

\* The stream ended: the joined text is returned; or it raised: so does
\* process_message.
ProcessEnd(t) ==
    /\ Running(t, "process_message", "wait")
    /\ ret[t].kind \in {"stop", "exc"}
    /\ Finish(t, IF ret[t].kind = "stop"
                 THEN Ok("process_message", JoinLines(Top(t).response_parts))
                 ELSE Exc("process_message", ret[t].val))
    /\ UNCHANGED << agency, compliance, environ, env_file, config, config_yaml, agent_config, heap, custom_tools, client, is_connected,
                    clients, built, sent, underlying, hist >>

\* ------------------------------------------------------------------ async with

\* A variant of Aexit that awaits connect().
AexitConnects == [fn |-> "connect", pc |-> "start"]

\* __aenter__ awaits connect(); __aexit__ awaits disconnect().
Aenter == [fn |-> "connect", pc |-> "start"]
Aexit == [fn |-> "disconnect", pc |-> "start"]

\* `async with agent:` is entered.
CallWith(t) ==
    /\ Start(t, [fn |-> "with", pc |-> "enter", body |-> "none", exits |-> 0])
    /\ UNCHANGED << agency, compliance, environ, env_file, config, config_yaml, agent_config, heap, custom_tools, client, is_connected,
                    clients, built, sent >>

WithEnter(t) ==
    /\ Running(t, "with", "enter")
    /\ stack' = Call(t, [Top(t) EXCEPT !.pc = "entering"], Aenter)
    /\ UNCHANGED << agency, compliance, environ, env_file, config, config_yaml, agent_config, heap, custom_tools, client, is_connected,
                    clients, built, ret, sent, underlying, hist >>

\* __aenter__ returned: the body starts; or it raised: the statement raises
\* and __aexit__ is not called.
WithEntered(t) ==
    /\ Running(t, "with", "entering")
    /\ IF ret[t].kind = "ok"
       THEN /\ stack' = SetTop(t, [Top(t) EXCEPT !.pc = "body"])
            /\ ret' = [ret EXCEPT ![t] = NoRet]
       ELSE Finish(t, [ret[t] EXCEPT !.fn = "with"] @@ [body |-> "none", exits |-> 0])
    /\ UNCHANGED << agency, compliance, environ, env_file, config, config_yaml, agent_config, heap, custom_tools, client, is_connected,
                    clients, built, sent, underlying, hist >>

\* The body completes, normally or by raising: __aexit__ runs.
WithBodyEnds(t) ==
    /\ Running(t, "with", "body")
    /\ \E how \in {"returned", "raised"} :
          stack' = Call(t, [Top(t) EXCEPT !.pc = "exiting", !.body = how,
                                          !.exits = @ + (IF Aexit.fn = "disconnect" THEN 1 ELSE 0)],
                        Aexit)
    /\ ret' = [ret EXCEPT ![t] = NoRet]
    /\ UNCHANGED << agency, compliance, environ, env_file, config, config_yaml, agent_config, heap, custom_tools, client, is_connected,
                    clients, built, sent, underlying, hist >>

\* __aexit__ returned None: the body's exception, if any, goes on; or
\* __aexit__ raised: its exception replaces the body's.
WithExited(t) ==
    /\ Running(t, "with", "exiting")
    /\ LET f == Top(t)
           r == IF ret[t].kind = "exc" THEN Exc("with", ret[t].val)
                ELSE IF f.body = "raised" THEN Exc("with", "BodyError")
                ELSE Ok("with", None)
       IN  Finish(t, r @@ [body |-> f.body, exits |-> f.exits])
    /\ UNCHANGED << agency, compliance, environ, env_file, config, config_yaml, agent_config, heap, custom_tools, client, is_connected,
                    clients, built, sent, underlying, hist >>

\* ------------------------------------------------------------------ run_interactive

\* Lines read from the terminal in one run of the loop.
MaxTurns == 2

\* What input() may return: the line typed, without its newline.
Lines ==
    { << "q", "u", "i", "t" >>,
      << " ", "E", "x", "i", "t", " " >>,
      << "B", "Y", "E" >>,
      << "\f", "G", "o", "o", "d", "B", "y", "e", "\\xa0" >>,
      <<>>,
      << " ", " " >>,
      << "h", "i" >> }

\* ['quit', 'exit', 'bye', 'goodbye']
Sentinels ==
    { << "q", "u", "i", "t" >>,
      << "e", "x", "i", "t" >>,
      << "b", "y", "e" >>,
      << "g", "o", "o", "d", "b", "y", "e" >> }

\* A variant of Handler that leaves the loop on every exception.
HandlerAlwaysBreaks(e) == "break"

\* The exceptions that are not an Exception: asyncio.CancelledError and
\* KeyboardInterrupt derive from BaseException.
BaseExceptions == { "KeyboardInterrupt", "CancelledError" }

\* The except clauses of the loop body: KeyboardInterrupt breaks; any other
\* Exception is logged and printed, and the loop goes on; what is neither
\* is not caught and leaves the loop body.
Handler(e) ==
    IF e = "KeyboardInterrupt" THEN "break"
    ELSE IF e \notin BaseExceptions THEN "continue"
    ELSE "raise"

\* What the except clauses print: a farewell for KeyboardInterrupt, and the
\* error message "Error: ..." for any other Exception.
Printed(e) ==
    IF e = "KeyboardInterrupt" THEN "goodbye"
    ELSE IF e \notin BaseExceptions THEN "error"
    ELSE "none"

\* The loop's record of its turns: the line read (<<>> when input() raised),
\* what became of the turn, the exception that ended it, whether query() was
\* called for it, whether its response stream was consumed to its end, what
\* the except clauses printed, and the number of prompts sent before it.
Turn(line, outcome, queried) ==
    [ line |-> line, outcome |-> outcome, error |-> "none", queried |-> queried,
      ended |-> FALSE, printed |-> "none", sent |-> Len(sent) ]

\* The last turn of the frame f is over with the given outcome.
Close(f, outcome) == [f EXCEPT !.turns[Len(f.turns)].outcome = outcome]

\* The last turn of the frame f is left with the response stream as the
\* client's receive_response() stands.
Consumed(f, stream) == [f EXCEPT !.turns[Len(f.turns)].ended = stream.ended]

\* The last turn of the frame f ends by the exception e reaching the except
\* clauses: the loop goes on, or it is left by break, or it is left by e,
\* which `async with self:` hands to __aexit__ and raises again after it.
Handle(f, e) ==
    [Close(f, "raised") EXCEPT !.turns[Len(f.turns)].error = e,
                               !.turns[Len(f.turns)].printed = Printed(e),
                               !.pc = IF Handler(e) = "continue" THEN "input" ELSE "exit",
                               !.raising = IF Handler(e) = "raise" THEN e ELSE "none"]

\* The program awaits agent.run_interactive(), at top level or inside a
\* bracket: the main() of an interactive agent does so once.
CallRunInteractive(t) ==
    /\ CanCall(t)
    /\ ~hist.looped
    /\ stack' = [stack EXCEPT ![t] =
                    <<[fn |-> "run_interactive", pc |-> "enter", gen |-> [fn |-> "none"],
                       turns |-> <<>>, eof |-> FALSE, raising |-> "none", mark |-> Mark]>> \o @]
    /\ ret' = [ret EXCEPT ![t] = NoRet]
    /\ underlying' = [underlying EXCEPT ![t] = NoStream]
    /\ hist' = [hist EXCEPT !.calls = @ + 1, !.looped = TRUE]
    /\ UNCHANGED << agency, compliance, environ, env_file, config, config_yaml, agent_config, heap, custom_tools,
                    client, is_connected, clients, built, sent >>

\* `async with self:` is entered.
LoopEnter(t) ==
    /\ Running(t, "run_interactive", "enter")
    /\ stack' = Call(t, [Top(t) EXCEPT !.pc = "entering"], Aenter)
    /\ UNCHANGED << agency, compliance, environ, env_file, config, config_yaml, agent_config, heap, custom_tools,
                    client, is_connected, clients, built, ret, sent, underlying, hist >>

\* __aenter__ returned: the loop starts; or it raised: so does run_interactive.
LoopEntered(t) ==
    /\ Running(t, "run_interactive", "entering")
    /\ IF ret[t].kind = "ok"
       THEN /\ stack' = SetTop(t, [Top(t) EXCEPT !.pc = "input"])
            /\ ret' = [ret EXCEPT ![t] = NoRet]
       ELSE Finish(t, Exc("run_interactive", ret[t].val) @@ [turns |-> Top(t).turns])
    /\ UNCHANGED << agency, compliance, environ, env_file, config, config_yaml, agent_config, heap, custom_tools,
                    client, is_connected, clients, built, sent, underlying, hist >>

\* The top of the loop body: input() is called and waits for a line. Once
\* standard input is at its end, every read fails at once.
LoopRead(t) ==
    /\ Running(t, "run_interactive", "input")
    /\ Len(Top(t).turns) < MaxTurns \/ Top(t).eof
    /\ stack' = SetTop(t, [Top(t) EXCEPT !.pc = "reading"])
    /\ UNCHANGED << agency, compliance, environ, env_file, config, config_yaml, agent_config, heap, custom_tools,
                    client, is_connected, clients, built, ret, sent, underlying, hist >>

\* input() returns a line: a sentinel breaks, an empty line continues, and
\* anything else becomes the prompt of query().
LoopInput(t) ==
    /\ Running(t, "run_interactive", "reading")
    /\ ~Top(t).eof
    /\ \E line \in Lines :
          LET user_input == Strip(line)
              f == Top(t)
          IN  stack' = SetTop(t,
                IF Lower(user_input) \in Sentinels
                THEN [f EXCEPT !.pc = "exit",
                               !.turns = Append(@, Turn(line, "quit", FALSE))]
                ELSE IF user_input = <<>>
                THEN [f EXCEPT !.pc = "input",
                               !.turns = Append(@, Turn(line, "empty", FALSE))]
                ELSE [f EXCEPT !.pc = "next", !.gen = Query(user_input),
                               !.turns = Append(@, Turn(line, "asked", TRUE))])
    /\ UNCHANGED << agency, compliance, environ, env_file, config, config_yaml, agent_config, heap, custom_tools,
                    client, is_connected, clients, built, ret, sent, underlying, hist >>

\* input() raises: the user interrupts, or standard input is at end of file.
\* An end of file is that of a terminal, which can be read again, or that
\* of a closed or exhausted stream, where every further read raises EOFError
\* again; the loop's record keeps one turn for the reads of such a stream.
LoopInputRaises(t) ==
    /\ Running(t, "run_interactive", "reading")
    /\ \/ /\ Len(Top(t).turns) < MaxTurns
          /\ \E e \in {"KeyboardInterrupt", "EOFError"}, closed \in BOOLEAN :
                /\ closed => e = "EOFError"
                /\ Top(t).eof => e = "KeyboardInterrupt"
                /\ stack' = SetTop(t,
                      Handle([Top(t) EXCEPT !.turns = Append(@, Turn(<<>>, "reading", FALSE)),
                                            !.eof = @ \/ closed], e))
       \/ /\ Top(t).eof
          /\ stack' = SetTop(t, [Top(t) EXCEPT
                           !.pc = IF Handler("EOFError") = "break" THEN "exit" ELSE "input"])
    /\ UNCHANGED << agency, compliance, environ, env_file, config, config_yaml, agent_config, heap, custom_tools,
                    client, is_connected, clients, built, ret, sent, underlying, hist >>

\* `async for message in self.query(user_input)` asks for the next message.
LoopNext(t) ==
    /\ Running(t, "run_interactive", "next")
    /\ Advance(t, "wait")
    /\ UNCHANGED << agency, compliance, environ, env_file, config, config_yaml, agent_config, heap, custom_tools,
                    client, is_connected, clients, built, sent, underlying, hist >>

\* A message arrives and display_message prints it.
LoopGot(t) ==
    /\ Running(t, "run_interactive", "wait")
    /\ ret[t].kind = "yield"
    /\ stack' = SetTop(t, [Top(t) EXCEPT !.pc = "next"])
    /\ UNCHANGED << agency, compliance, environ, env_file, config, config_yaml, agent_config, heap, custom_tools,
                    client, is_connected, clients, built, ret, sent, underlying, hist >>

\* The response stream ends: the next line is read. What was displayed in
\* the turn is not kept.
LoopAnswered(t) ==
    /\ Running(t, "run_interactive", "wait")
    /\ ret[t].kind = "stop"
    /\ stack' = SetTop(t, [Consumed(Close(Top(t), "answered"), underlying[t]) EXCEPT !.pc = "input"])
    /\ underlying' = [underlying EXCEPT ![t] = NoStream]
    /\ UNCHANGED << agency, compliance, environ, env_file, config, config_yaml, agent_config, heap, custom_tools,
                    client, is_connected, clients, built, ret, sent, hist >>

\* query() raises into the loop body.
LoopRaised(t) ==
    /\ Running(t, "run_interactive", "wait")
    /\ ret[t].kind = "exc"
    /\ stack' = SetTop(t, Handle(Consumed(Top(t), underlying[t]), ret[t].val))
    /\ underlying' = [underlying EXCEPT ![t] = NoStream]
    /\ UNCHANGED << agency, compliance, environ, env_file, config, config_yaml, agent_config, heap, custom_tools,
                    client, is_connected, clients, built, ret, sent, hist >>

\* The frame n of the task is the loop's, and the frames above it are those
\* of query() and of what it awaits.
Awaiting(t, n) ==
    /\ stack[t][n].fn = "run_interactive"
    /\ stack[t][n].pc = "wait"
    /\ \A m \in 1..(n - 1) : stack[t][m].fn \in {"query", "connect"}

\* The user interrupts while the code under the loop's `async for` runs in
\* the task: the signal handler raises KeyboardInterrupt there (Python's
\* default handler, and the handler of asyncio.run from the second interrupt
\* on), and it leaves query() and whatever query() was awaiting.
LoopInterrupted(t) ==
    /\ stack[t] # <<>>
    /\ Top(t).fn \in {"query", "connect"}
    /\ Top(t).pc \in {"handshake", "sending", "receiving"}
    /\ \E n \in 2..Len(stack[t]) :
          /\ Awaiting(t, n)
          /\ stack' = [stack EXCEPT ![t] = SubSeq(@, n, Len(@))]
    /\ ret' = [ret EXCEPT ![t] = Exc("query", "KeyboardInterrupt")]
    /\ UNCHANGED << agency, compliance, environ, env_file, config, config_yaml, agent_config, heap, custom_tools,
                    client, is_connected, clients, built, sent, underlying, hist >>

\* The user interrupts the program that asyncio.run(main()) runs: the signal
\* handler of asyncio.run cancels the main task on the first interrupt, and
\* CancelledError is raised at the await the task is suspended in (when the
\* signal arrives while the task runs, as it does inside input(), at the next
\* await the task reaches). It leaves the awaiting coroutine as any other
\* exception of that await does.
Cancelled(t) ==
    /\ ~hist.cancelled
    /\ stack[t] # <<>>
    /\ \/ /\ Running(t, "connect", "handshake")
          /\ clients' = [clients EXCEPT ![Top(t).c].state = "failed"]
          /\ hist' = [hist EXCEPT !.cancelled = TRUE,
                                  !.failures = @ + 1,
                                  !.run.first = IF @ = "none" THEN "failed" ELSE @]
          /\ stack' = Pop(t)
          /\ ret' = [ret EXCEPT ![t] = Handed(t, Exc("connect", "CancelledError"), hist')]
          /\ UNCHANGED is_connected
       \/ /\ Running(t, "query", "sending") \/ Running(t, "query", "receiving")
          /\ Suspend(t, [Top(t) EXCEPT !.pc = "done"], Exc("query", "CancelledError"))
          /\ hist' = [hist EXCEPT !.cancelled = TRUE]
          /\ UNCHANGED << clients, is_connected >>
       \/ /\ Running(t, "disconnect", "teardown")
          /\ is_connected' = FlagAfterTeardown(TRUE)
          /\ hist' = [hist EXCEPT !.cancelled = TRUE]
          /\ stack' = Pop(t)
          /\ ret' = [ret EXCEPT ![t] = Handed(t, Exc("disconnect", "CancelledError"), hist')]
          /\ UNCHANGED clients
    /\ UNCHANGED << agency, compliance, environ, env_file, config, config_yaml, agent_config, heap, custom_tools,
                    client, built, sent, underlying >>

\* The loop was left by break or by an exception: `async with self:` is
\* exited.
LoopExit(t) ==
    /\ Running(t, "run_interactive", "exit")
    /\ stack' = Call(t, [Top(t) EXCEPT !.pc = "exiting"], Aexit)
    /\ ret' = [ret EXCEPT ![t] = NoRet]
    /\ UNCHANGED << agency, compliance, environ, env_file, config, config_yaml, agent_config, heap, custom_tools,
                    client, is_connected, clients, built, sent, underlying, hist >>

\* __aexit__ returned: run_interactive returns, or raises the exception
\* that left the loop; or __aexit__ raised: so does run_interactive.
LoopExited(t) ==
    /\ Running(t, "run_interactive", "exiting")
    /\ Finish(t, (IF ret[t].kind = "exc"
                  THEN Exc("run_interactive", ret[t].val)
                  ELSE IF Top(t).raising # "none"
                  THEN Exc("run_interactive", Top(t).raising)
                  ELSE Ok("run_interactive", None)) @@ [turns |-> Top(t).turns])
    /\ UNCHANGED << agency, compliance, environ, env_file, config, config_yaml, agent_config, heap, custom_tools,
                    client, is_connected, clients, built, sent, underlying, hist >>

\* ------------------------------------------------------------------ configuration calls

\* API keys: one of the minimum length, one a character short of it, and one
\* with another prefix.
Key20 ==
    << "s", "k", "-", "a", "n", "t", "-", "0", "1", "2", "3", "4", "5",
       "6", "7", "8", "9", "a", "b", "c" >>
Key19 ==
    << "s", "k", "-", "a", "n", "t", "-", "0", "1", "2", "3", "4", "5",
       "6", "7", "8", "9", "a", "b" >>
BadPrefixKey ==
    << "p", "k", "-", "a", "n", "t", "-", "v", "a", "l", "i", "d", "-",
       "k", "e", "y", "-", "1", "2", "3", "4", "5" >>

\* What the variables may be set to in os.environ and in a .env file.
EnvKeys == { ValidKey, <<>> }
EnvNames == { << "t", "e", "s", "t", "-", "a", "g", "e", "n", "t" >> }
EnvVersions == { << "2", ".", "1" >> }
EnvLevels == { << "D", "E", "B", "U", "G" >> }
EnvPorts ==
    { << "8", "0", "8", "0" >>,
      << "\\x0b", "\\uff18", "_", "0", "\\u0668", "0", "\f" >>,
      << "a", "b", "c" >> }
EnvHosts == { << "0", ".", "0", ".", "0", ".", "0" >> }

Setting(name, value) == IF value = <<>> THEN <<>> ELSE name :> value[1]

Environs ==
    { Setting("ANTHROPIC_API_KEY", key) @@ Setting("AGENT_NAME", name)
        @@ Setting("AGENT_VERSION", version) @@ Setting("LOG_LEVEL", level)
        @@ Setting("MCP_SERVER_PORT", port) @@ Setting("MCP_SERVER_HOST", host) :
        key \in Optional(EnvKeys), name \in Optional(EnvNames),
        version \in Optional(EnvVersions), level \in Optional(EnvLevels),
        port \in Optional(EnvPorts), host \in Optional(EnvHosts) }

EnvFiles ==
    Optional({ ("ANTHROPIC_API_KEY" :> Key20) @@ ("AGENT_NAME" :> << "e", "n", "v", "-", "a", "g", "e", "n", "t" >>) })

\* The directories an agent is constructed on: without config.yaml, with an
\* empty one, with one that sets a name and a tool list.
ConfigDirs ==
    { <<>>, <<ConfigYaml(<<>>, <<>>)>> }
    \cup { <<ConfigYaml(<<name>>, <<static>>)>> : name \in ConfigNames, static \in StaticLists }

\* The configurations validate_config is called on.
KeyValues == { Str(ValidKey), Str(Key20), Str(Key19), Str(BadPrefixKey), Str(<<>>), PyNone }
NameValues ==
    { Str(<< "t", "e", "s", "t", "-", "a", "g", "e", "n", "t" >>),
      Str(<< "i", "n", "v", "a", "l", "i", "d", " ", "n", "a", "m", "e", "!" >>),
      Str(<< "A", "g", "e", "n", "t", "_", "9" >>),
      Str(<< "a", "g", "e", "n", "t", "\n" >>),
      Str(<<>>), PyNone }
PortValues ==
    { Int_(3000), Int_(0), Int_(1), Int_(65535), Int_(65536), Int_(99999), Int_(0 - 1),
      Str(<< "3", "0", "0", "0" >>), PyNone }

Configs ==
    { Setting("anthropic_api_key", key) @@ Setting("agent_name", name)
        @@ Setting("mcp_server_port", port) :
        key \in Optional(KeyValues), name \in Optional(NameValues),
        port \in Optional(PortValues) }

\* The fields of an instance that has not been constructed.
Unset == [unset |-> TRUE]

\* A program that has constructed nothing yet.
InitConfig ==
    /\ environ \in Environs
    /\ env_file \in EnvFiles
    /\ config_yaml \in ConfigDirs
    /\ config = Unset
    /\ agent_config = Unset
    /\ heap = <<>>
    /\ custom_tools = <<>>
    /\ client = None
    /\ is_connected = FALSE
    /\ clients = <<>>
    /\ built = <<>>
    /\ stack = [t \in Tasks |-> <<[fn |-> "main", pc |-> "start"]>>]
    /\ ret = [t \in Tasks |-> NoRet]
    /\ sent = <<>>
    /\ underlying = [t \in Tasks |-> NoStream]
    /\ hist = NoHist
    /\ agency = NewAgency
    /\ compliance = NewCompliance

\* The program makes its one call, which leaves it at pc and hands back r.
Called(t, pc, r) ==
    /\ Running(t, "main", "start")
    /\ stack' = SetTop(t, [Top(t) EXCEPT !.pc = pc])
    /\ ret' = [ret EXCEPT ![t] = r]
    /\ hist' = [hist EXCEPT !.calls = @ + 1]

\* BaseClaudeAgent(config_dir)
CallConstruct(t) ==
    LET made == Construct(environ, env_file, config_yaml)
    IN  /\ environ' = made.environ
        /\ IF made.ret.kind = "ok"
           THEN /\ Called(t, "ready", made.ret)
                /\ config' = made.config
                /\ agent_config' = made.agent_config
                /\ heap' = made.heap
                /\ client' = None
                /\ is_connected' = FALSE
           ELSE /\ Called(t, "done", made.ret)
                /\ UNCHANGED << config, agent_config, heap, client, is_connected >>
        /\ UNCHANGED << agency, compliance, env_file, config_yaml, custom_tools, clients, built, sent, underlying >>

\* get_env_var(key, default)
CallGetEnvVar(t) ==
    /\ \E key \in {"ANTHROPIC_API_KEY", "LOG_LEVEL"}, default \in Optional({DefaultLogLevel}) :
          Called(t, "done", GetEnvVar(environ, key, default) @@ [key |-> key, default |-> default])
    /\ UNCHANGED << agency, compliance, environ, env_file, config, config_yaml, agent_config, heap, custom_tools,
                    client, is_connected, clients, built, sent, underlying >>

\* load_config(config_dir)
CallLoadConfig(t) ==
    /\ LET loaded == LoadConfig(environ, env_file)
       IN  /\ environ' = loaded.environ
           /\ Called(t, "done", loaded.ret)
    /\ UNCHANGED << agency, compliance, env_file, config, config_yaml, agent_config, heap, custom_tools,
                    client, is_connected, clients, built, sent, underlying >>

\* validate_config(config)
CallValidateConfig(t) ==
    /\ \E cfg \in Configs : Called(t, "done", ValidateConfig(cfg) @@ [config |-> cfg])
    /\ UNCHANGED << agency, compliance, environ, env_file, config, config_yaml, agent_config, heap, custom_tools,
                    client, is_connected, clients, built, sent, underlying >>

\* test_configuration() of scripts/test_setup.py: load_config(), then
\* validate_config() on what it returned; any exception makes the test fail.
TestConfiguration(t) ==
    /\ LET loaded == LoadConfig(environ, env_file)
           errors == IF loaded.ret.kind = "ok" THEN ValidateConfig(loaded.ret.val)
                     ELSE loaded.ret
       IN  /\ environ' = loaded.environ
           /\ Called(t, "done",
                     Ok("test_configuration", errors.kind = "ok")
                     @@ [ loaded |-> loaded.ret.kind = "ok",
                          errors |-> IF errors.kind = "ok" THEN errors.val ELSE <<>> ])
    /\ UNCHANGED << agency, compliance, env_file, config, config_yaml, agent_config, heap, custom_tools,
                    client, is_connected, clients, built, sent, underlying >>

\* ------------------------------------------------------------------ ad agency project manager

\* The ids uuid4() can return, the saves and reads that may fail, and what
\* the other arguments of the tools may be.
MaxIds == 3
MaxFaults == 1
Uuids == 1..MaxIds
ItemTypes == {"task", "project", "campaign"}
Notes == {"client asked"}

\* The three stores of the stores record st.
Stores(st) == [clients |-> st.clients, projects |-> st.projects, tasks |-> st.tasks]

\* str(uuid.uuid4()) returns an id that was not returned before, in this
\* run of the program or an earlier one; ids are opaque, so the model
\* issues them in order.
Uuid4(st) == st.issued + 1

\* dict[key] = value
Put(dict, key, value) == (key :> value) @@ dict

\* `if notes: record["notes"] = notes`
WithNotes(record, notes) == IF notes # "" THEN ("notes" :> notes) @@ record ELSE record

\* What a tool leaves: the stores, the files it saves, in the order of its
\* _save_data calls, and the ids it drew.
Done(stores, saved, drawn) == [stores |-> stores, saved |-> saved, drawn |-> drawn]

\* A tool that returns at its guard: nothing assigned, nothing saved.
NotFound(st) == Done(Stores(st), <<>>, 0)

\* create_client(args)
CreateClient(st, args) ==
    LET client_id == Uuid4(st)
        client_data == [id |-> client_id, name |-> args.name, projects |-> <<>>, status |-> "active"]
    IN  Done([Stores(st) EXCEPT !.clients = Put(@, client_id, client_data)], <<"clients">>, 1)

\* A variant of ClientFound that takes every id for a client's.
ClientFoundAlways(st, client_id) == TRUE

\* The guard of create_project: args["client_id"] in self.clients.
ClientFound(st, client_id) == client_id \in DOMAIN st.clients

\* create_project(args)
CreateProject(st, args) ==
    IF ~ClientFound(st, args.client_id) THEN NotFound(st)
    ELSE LET project_id == Uuid4(st)
             project_data == [ id |-> project_id, name |-> args.name, client_id |-> args.client_id,
                               end_date |-> args.end_date, status |-> "Not Started",
                               progress |-> 0, tasks |-> <<>> ]
         IN  Done([Stores(st) EXCEPT !.projects = Put(@, project_id, project_data),
                                     !.clients[args.client_id].projects = Append(@, project_id)],
                  <<"projects", "clients">>, 1)

\* add_task(args)
AddTask(st, args) ==
    IF args.project_id \notin DOMAIN st.projects THEN NotFound(st)
    ELSE LET task_id == Uuid4(st)
             task_data == [ id |-> task_id, project_id |-> args.project_id, title |-> args.title,
                            deadline |-> args.deadline, status |-> "Not Started",
                            assigned_to |-> None ]
         IN  Done([Stores(st) EXCEPT !.tasks = Put(@, task_id, task_data),
                                     !.projects[args.project_id].tasks = Append(@, task_id)],
                  <<"tasks", "projects">>, 1)

\* assign_task(args)
AssignTask(st, args) ==
    IF args.task_id \notin DOMAIN st.tasks THEN NotFound(st)
    ELSE Done([Stores(st) EXCEPT !.tasks[args.task_id].assigned_to = args.assigned_to],
              <<"tasks">>, 0)

\* update_progress(args)
UpdateProgress(st, args) ==
    IF args.item_type = "task"
    THEN IF args.item_id \notin DOMAIN st.tasks THEN NotFound(st)
         ELSE Done([Stores(st) EXCEPT !.tasks[args.item_id] =
                                         WithNotes([@ EXCEPT !.status = args.status], args.notes)],
                   <<"tasks">>, 0)
    ELSE IF args.item_type = "project"
    THEN IF args.item_id \notin DOMAIN st.projects THEN NotFound(st)
         ELSE Done([Stores(st) EXCEPT !.projects[args.item_id] =
                                         WithNotes([@ EXCEPT !.status = args.status,
                                                             !.progress = args.progress], args.notes)],
                   <<"projects">>, 0)
    ELSE NotFound(st)

\* set_deadline(args)
SetDeadline(st, args) ==
    IF args.item_type = "task"
    THEN IF args.item_id \notin DOMAIN st.tasks THEN NotFound(st)
         ELSE Done([Stores(st) EXCEPT !.tasks[args.item_id].deadline = args.deadline],
                   <<"tasks">>, 0)
    ELSE IF args.item_type = "project"
    THEN IF args.item_id \notin DOMAIN st.projects THEN NotFound(st)
         ELSE Done([Stores(st) EXCEPT !.projects[args.item_id].end_date = args.deadline],
                   <<"projects">>, 0)
    ELSE NotFound(st)

\* track_budget(args): an expense, with an id of its own, is appended to
\* the project's budget_tracking and the project store is saved. The
\* expenses, like the budget and the timestamps of a record, are not among
\* the fields the stores keep here, so the stores are left as they were;
\* the id is drawn and projects.json is written again.
TrackBudget(st, args) ==
    IF args.project_id \notin DOMAIN st.projects THEN NotFound(st)
    ELSE Done(Stores(st), <<"projects">>, 1)

\* manage_team(args): a member is added to the team under a new id, or
\* removed from it, and team.json is saved. No client, project or task
\* refers to the team, which is not among the stores kept here: of what is
\* kept, only the id is drawn.
ManageTeam(st, args) ==
    IF args.action = "add" THEN Done(Stores(st), <<>>, 1) ELSE NotFound(st)

\* schedule_meeting(args): the meeting is written under a new id to
\* meetings.json, which the tool loads and saves itself; the stores and
\* their files are not touched.
ScheduleMeeting(st, args) == Done(Stores(st), <<>>, 1)

\* The files after the saves of a tool, made in order, each with its outcome.
RECURSIVE Saved(_, _, _, _)
Saved(files, stores, saved, outcomes) ==
    IF saved = <<>> THEN files
    ELSE Saved([files EXCEPT ![Head(saved)] = SaveData(@, stores[Head(saved)], Head(outcomes))],
               stores, Tail(saved), Tail(outcomes))

\* The saves among the outcomes that failed.
Failures(outcomes) == Cardinality({ n \in DOMAIN outcomes : outcomes[n] # "written" })

\* The manager after a tool call: the stores and files the tool leaves, and
\* the record of the call with the stores as they were before it.
Called_(st, done, tool, args, outcomes) ==
    [ st EXCEPT !.clients = done.stores.clients,
                !.projects = done.stores.projects,
                !.tasks = done.stores.tasks,
                !.files = Saved(@, done.stores, done.saved, outcomes),
                !.issued = @ + done.drawn,
                !.faults = @ + Failures(outcomes),
                !.last = [tool |-> tool, args |-> args, before |-> Stores(st)] ]

\* The SDK calls a tool of the agent: the tool runs, and each of its saves
\* is written or fails. A call that creates a record needs an id the run
\* can still issue.
ToolCalled(done, tool, args) ==
    /\ agency.issued + done.drawn <= MaxIds
    /\ \E outcomes \in [DOMAIN done.saved -> SaveOutcomes] :
          /\ agency.faults + Failures(outcomes) <= MaxFaults
          /\ agency' = Called_(agency, done, tool, args, outcomes)
    /\ UNCHANGED << adapter, compliance >>

CallCreateClient ==
    \E args \in [name : {"Acme"}] :
        ToolCalled(CreateClient(agency, args), "create_client", args)

CallCreateProject ==
    \E args \in [name : {"Launch"}, client_id : Uuids, end_date : {"2027-01-31"}] :
        ToolCalled(CreateProject(agency, args), "create_project", args)

CallAddTask ==
    \E args \in [project_id : Uuids, title : {"Storyboard"}, deadline : {"2027-01-15"}] :
        ToolCalled(AddTask(agency, args), "add_task", args)

CallAssignTask ==
    \E args \in [task_id : Uuids, assigned_to : {"alice"}] :
        ToolCalled(AssignTask(agency, args), "assign_task", args)

CallUpdateProgress ==
    \E args \in [ item_id : Uuids, item_type : ItemTypes, progress : {50},
                  status : {"In Progress"}, notes : Notes ] :
        ToolCalled(UpdateProgress(agency, args), "update_progress", args)

CallSetDeadline ==
    \E args \in [item_id : Uuids, item_type : ItemTypes, deadline : {"2027-02-28"}] :
        ToolCalled(SetDeadline(agency, args), "set_deadline", args)

CallTrackBudget ==
    \E args \in [ project_id : Uuids, category : {"Production"}, amount : {10},
                  description : {"props"} ] :
        ToolCalled(TrackBudget(agency, args), "track_budget", args)

CallManageTeam ==
    \E args \in [action : {"add", "remove", "list"}, name : {"alice"}] :
        ToolCalled(ManageTeam(agency, args), "manage_team", args)

CallScheduleMeeting ==
    \E args \in [title : {"Kickoff"}, date : {"2027-01-04"}] :
        ToolCalled(ScheduleMeeting(agency, args), "schedule_meeting", args)

\* The program is started again on the data directory: a manager is
\* constructed from the files the earlier run left.
CallInitAgency ==
    /\ \E readable \in [StoreNames -> BOOLEAN] :
          LET unread == Cardinality({ name \in StoreNames : ~readable[name] })
          IN  /\ \A name \in StoreNames : ~readable[name] => agency.files[name].state = "whole"
              /\ agency.faults + unread <= MaxFaults
              /\ agency' = InitAgency(agency.files, readable, agency.issued,
                                      agency.faults + unread, TRUE)
    /\ UNCHANGED << adapter, compliance >>

\* ------------------------------------------------------------------ azure compliance checker

\* Reports written in one run.
MaxReports == 1

\* Controls of a checklist file: one to be verified by hand, one that needs
\* a resource of a type to exist, one for which a resource is optional, one
\* that names no resource, two whose requirement quotes a phrase of the
\* validation text, two whose resource requirement lists property
\* validations, and one that needs resources of two types.
ManualControl ==
    [ reglementation |-> << "A", "C", "P", "R" >>, exigence |-> << "G", "o", "u", "v", "e", "r", "n", "a", "n", "c", "e" >>,
      manual_verification |-> TRUE, azure_resources |-> <<>> ]
KeyVaultType ==
    << "M", "i", "c", "r", "o", "s", "o", "f", "t", ".", "K", "e", "y", "V", "a", "u", "l", "t", "/", "v", "a", "u", "l", "t", "s" >>
RequiredControl ==
    [ reglementation |-> << "A", "C", "P", "R" >>, exigence |-> << "C", "h", "i", "f", "f", "r", "e", "m", "e", "n", "t" >>,
      manual_verification |-> FALSE,
      azure_resources |-> << [type |-> KeyVaultType, required |-> TRUE] >> ]
OptionalControl ==
    [ reglementation |-> << "D", "O", "R", "A" >>,
      exigence |-> << "J", "o", "u", "r", "n", "a", "l", "i", "s", "a", "t", "i", "o", "n" >>,
      manual_verification |-> FALSE,
      azure_resources |-> << [type |-> KeyVaultType, required |-> FALSE] >> ]
BareControl ==
    [ reglementation |-> << "D", "O", "R", "A" >>, exigence |-> << "C", "o", "n", "t", "i", "n", "u", "i", "t", "e" >>,
      manual_verification |-> FALSE, azure_resources |-> <<>> ]
QuotesManualControl ==
    [ reglementation |-> << "A", "C", "P", "R" >>,
      exigence |-> << "M", "a", "n", "u", "a", "l", " ", "V", "e", "r", "i", "f", "i", "c", "a", "t", "i", "o", "n", " ", "R", "e", "q", "u", "i", "r", "e", "d", " ", "f", "o", "r", " ", "e", "x", "c", "e", "p", "t", "i", "o", "n", "s" >>,
      manual_verification |-> FALSE,
      azure_resources |-> << [type |-> KeyVaultType, required |-> TRUE] >> ]
QuotesPassedControl ==
    [ reglementation |-> << "D", "O", "R", "A" >>,
      exigence |-> << "R", "e", "p", "o", "r", "t", " ", "*", "*", "S", "t", "a", "t", "u", "s", "*", "*", ":", " ", "P", "A", "S", "S", "E", "D", " ", "t", "o", " ", "A", "C", "P", "R" >>,
      manual_verification |-> FALSE,
      azure_resources |-> << [type |-> KeyVaultType, required |-> TRUE] >> ]
ValidatedControl ==
    [ reglementation |-> << "D", "O", "R", "A" >>, exigence |-> << "C", "o", "n", "s", "e", "r", "v", "a", "t", "i", "o", "n" >>,
      manual_verification |-> FALSE,
      azure_resources |->
          << [ type |-> KeyVaultType, required |-> TRUE,
               validation |->
                   << [ property |-> << "p", "r", "o", "p", "e", "r", "t", "i", "e", "s", ".", "e", "n", "a", "b", "l", "e", "S", "o", "f", "t", "D", "e", "l", "e", "t", "e" >>,
                        check |-> << "e", "x", "i", "s", "t", "s" >> ],
                      [ property |-> << "s", "k", "u" >>, check |-> << "e", "q", "u", "a", "l", "s" >>,
                        value |-> << "p", "r", "e", "m", "i", "u", "m" >> ],
                      [ property |-> << "x" >>, check |-> << "o", "t", "h", "e", "r" >> ] >> ] >> ]
QuotesInValidationControl ==
    [ reglementation |-> << "A", "C", "P", "R" >>, exigence |-> << "C", "h", "i", "f", "f", "r", "e", "m", "e", "n", "t" >>,
      manual_verification |-> FALSE,
      azure_resources |->
          << [ type |-> KeyVaultType, required |-> TRUE,
               validation |->
                   << [ property |-> << "M", "a", "n", "u", "a", "l", " ", "V", "e", "r", "i", "f", "i", "c", "a", "t", "i", "o", "n", " ", "R", "e", "q", "u", "i", "r", "e", "d" >>,
                        check |-> << "e", "x", "i", "s", "t", "s" >> ] >> ] >> ]
StorageType ==
    << "M", "i", "c", "r", "o", "s", "o", "f", "t", ".", "S", "t", "o", "r", "a", "g", "e", "/", "s", "t", "o", "r", "a", "g", "e", "A", "c", "c", "o", "u", "n", "t", "s" >>
TwoResourceControl ==
    [ reglementation |-> << "D", "O", "R", "A" >>, exigence |-> << "S", "a", "u", "v", "e", "g", "a", "r", "d", "e" >>,
      manual_verification |-> FALSE,
      azure_resources |-> << [type |-> KeyVaultType, required |-> TRUE],
                             [type |-> StorageType, required |-> TRUE] >> ]

\* The checklists directory: file name -> what yaml.safe_load returns for
\* the file, <<mapping>>, or <<>> for the None of an empty file. Any other
\* name is of no file.
ChecklistsDir ==
    [ acpr |-> << [checklist |-> << ManualControl, RequiredControl >>] >>,
      dora |-> << [checklist |-> << OptionalControl, BareControl, RequiredControl >>] >>,
      quoted |-> << [checklist |-> << QuotesManualControl, QuotesPassedControl >>] >>,
      validated |-> << [checklist |-> << ValidatedControl, QuotesInValidationControl >>] >>,
      paired |-> << [checklist |-> << TwoResourceControl >>] >>,
      blank |-> <<>> ]
Filenames == {"acpr", "dora", "quoted", "validated", "paired", "blank", "absent"}

\* self.current_checklist.get('checklist', [])
Controls(checklist) ==
    IF "checklist" \in DOMAIN checklist[1] THEN checklist[1].checklist ELSE <<>>

\* `not self.current_checklist`: None, or an empty mapping.
NoChecklist(checklist) == checklist = <<>> \/ DOMAIN checklist[1] = {}

\* load_compliance_checklist(args): the checklist it leaves. A file that
\* does not exist leaves the one there was; a file that parses to None
\* is assigned before `.get` raises on it.
LoadComplianceChecklist(current, filename) ==
    IF filename \notin DOMAIN ChecklistsDir THEN current ELSE ChecklistsDir[filename]

\* `needle in text`
Contains(text, needle) ==
    \E i \in 0..(Len(text) - Len(needle)) : SubSeq(text, i + 1, i + Len(needle)) = needle

\* f"{mapping.get(key)}": the value under the key, None when there is none.
Format(mapping, key) ==
    IF key \in DOMAIN mapping THEN mapping[key] ELSE << "N", "o", "n", "e" >>

\* What subprocess.run of `az resource list` comes to for one resource
\* requirement: a JSON list of so many resources on stdout, a return code
\* other than 0 with a text on stderr, TimeoutExpired, or another exception
\* with str(e).
Listed(count) == [kind |-> "listed", count |-> count]
Failed(stderr) == [kind |-> "failed", stderr |-> stderr]
TimedOut == [kind |-> "timeout"]
Raised(message) == [kind |-> "raised", message |-> message]

\* The lines added for the property validations of a resource requirement,
\* once resources of its type were found.
RECURSIVE Validations(_)
Validations(validations) ==
    IF validations = <<>> THEN <<>>
    ELSE LET validation == Head(validations)
             check_type == Format(validation, "check")
         IN  << " ", " ", " ", " ", " ", " ", "\\u201a", "\\xc4", "\\xa2", " ", "V", "a", "l",
                "i", "d", "a", "t", "i", "n", "g", ":", " " >>
             \o Format(validation, "property") \o << " ", "(" >> \o check_type \o << ")", "\n" >>
             \o (IF check_type = << "e", "x", "i", "s", "t", "s" >>
                 THEN << " ", " ", " ", " ", " ", " ", " ", " ", " ", "\\u201a", "\\xfa",
                         "\\xd6", " ", "P", "r", "o", "p", "e", "r", "t", "y", " ", "e", "x",
                         "i", "s", "t", "s", "\n" >>
                 ELSE IF check_type = << "e", "q", "u", "a", "l", "s" >>
                 THEN << " ", " ", " ", " ", " ", " ", " ", " ", " ", "\\u201a", "\\xd1",
                         "\\u03c0", "\\xd4", "\\u220f", "\\xe8", " ", " ", "E", "x", "p", "e",
                         "c", "t", "e", "d", ":", " " >>
                      \o Format(validation, "value")
                      \o << " ", "(", "c", "h", "e", "c", "k", " ", "m", "a", "n", "u", "a",
                            "l", "l", "y", ")", "\n" >>
                 ELSE << " ", " ", " ", " ", " ", " ", " ", " ", " ", "\\u201a", "\\xd1",
                         "\\u03c0", "\\xd4", "\\u220f", "\\xe8", " ", " ", "V", "a", "l", "i",
                         "d", "a", "t", "i", "o", "n", " ", "t", "y", "p", "e", ":", " " >>
                      \o check_type \o << "\n" >>)
             \o Validations(Tail(validations))

\* resource_req.get('required', False)
Required(resource_req) == "required" \in DOMAIN resource_req /\ resource_req.required

\* The text one pass of the loop over control['azure_resources'] adds for a
\* resource requirement, given what the query came to.
ResourceCheck(resource_req, result) ==
    << "\n", "\\uf8ff", "\\xfc", "\\xee", "\\xe7", " ", "C", "h", "e", "c", "k", "i", "n", "g",
       " ", "R", "e", "s", "o", "u", "r", "c", "e", " ", "T", "y", "p", "e", ":", " " >>
    \o Format(resource_req, "type") \o << "\n" >>
    \o (IF result.kind = "failed"
        THEN (IF Required(resource_req)
              THEN << " ", " ", " ", "\\u201a", "\\xf9", "\\xe5", " ", "F", "A", "I", "L", "E",
                      "D", ":", " ", "E", "r", "r", "o", "r", " ", "q", "u", "e", "r", "y",
                      "i", "n", "g", " ", "A", "z", "u", "r", "e", ":", " " >>
              ELSE << " ", " ", " ", "\\u201a", "\\xf6", "\\u2020", "\\xd4", "\\u220f",
                      "\\xe8", " ", " ", "W", "A", "R", "N", "I", "N", "G", ":", " ", "E", "r",
                      "r", "o", "r", " ", "q", "u", "e", "r", "y", "i", "n", "g", " ", "A",
                      "z", "u", "r", "e", ":", " " >>)
             \o result.stderr \o << "\n" >>
        ELSE IF result.kind = "timeout"
        THEN (IF Required(resource_req)
              THEN << " ", " ", " ", "\\u201a", "\\xf9", "\\xe5", " ", "F", "A", "I", "L", "E",
                      "D", ":", " ", "Q", "u", "e", "r", "y", " ", "t", "i", "m", "e", "o",
                      "u", "t", "\n" >>
              ELSE << " ", " ", " ", "\\u201a", "\\xf6", "\\u2020", "\\xd4", "\\u220f",
                      "\\xe8", " ", " ", "W", "A", "R", "N", "I", "N", "G", ":", " ", "Q", "u",
                      "e", "r", "y", " ", "t", "i", "m", "e", "o", "u", "t", "\n" >>)
        ELSE IF result.kind = "raised"
        THEN (IF Required(resource_req)
              THEN << " ", " ", " ", "\\u201a", "\\xf9", "\\xe5", " ", "F", "A", "I", "L", "E",
                      "D", ":", " " >>
              ELSE << " ", " ", " ", "\\u201a", "\\xf6", "\\u2020", "\\xd4", "\\u220f",
                      "\\xe8", " ", " ", "W", "A", "R", "N", "I", "N", "G", ":", " " >>)
             \o result.message \o << "\n" >>
        ELSE IF result.count = 0
        THEN (IF Required(resource_req)
              THEN << " ", " ", " ", "\\u201a", "\\xf9", "\\xe5", " ", "F", "A", "I", "L", "E",
                      "D", ":", " ", "N", "o", " ", "r", "e", "s", "o", "u", "r", "c", "e",
                      "s", " ", "f", "o", "u", "n", "d", " ", "(", "r", "e", "q", "u", "i",
                      "r", "e", "d", ")", "\n" >>
              ELSE << " ", " ", " ", "\\u201a", "\\xf6", "\\u2020", "\\xd4", "\\u220f",
                      "\\xe8", " ", " ", "W", "A", "R", "N", "I", "N", "G", ":", " ", "N", "o",
                      " ", "r", "e", "s", "o", "u", "r", "c", "e", "s", " ", "f", "o", "u",
                      "n", "d", " ", "(", "o", "p", "t", "i", "o", "n", "a", "l", ")", "\n" >>)
        ELSE << " ", " ", " ", "\\u201a", "\\xfa", "\\xd6", " ", "F", "o", "u", "n", "d", " " >>
             \o Decimal(result.count)
             \o << " ", "r", "e", "s", "o", "u", "r", "c", "e", "(", "s", ")", "\n" >>
             \o (IF "validation" \in DOMAIN resource_req
                 THEN Validations(resource_req.validation) ELSE <<>>))

\* The loop of _validate_single_control over control['azure_resources'];
\* results[r] is what the query for requirement r came to.
RECURSIVE ResourceChecks(_, _)
ResourceChecks(azure_resources, results) ==
    IF azure_resources = <<>> THEN <<>>
    ELSE ResourceCheck(Head(azure_resources), Head(results))
         \o ResourceChecks(Tail(azure_resources), Tail(results))

\* all_passed after the loop: no required resource type whose query failed
\* or found nothing.
AllPassed(azure_resources, results) ==
    \A r \in DOMAIN azure_resources :
        Required(azure_resources[r]) => results[r].kind = "listed" /\ results[r].count > 0

\* _validate_single_control(control, index): the text it returns, given
\* what the query for each resource requirement comes to.
ValidateSingleControl(control, index, results) ==
    LET Rule(n) == [i \in 1..n |-> "="]
        azure_resources ==
            IF "azure_resources" \in DOMAIN control THEN control.azure_resources ELSE <<>>
        result_text ==
            << "\n" >> \o Rule(80) \o << "\n" >>
            \o << "C", "o", "n", "t", "r", "o", "l", " ", "#" >> \o Decimal(index + 1) \o << "\n" >>
            \o Rule(80) \o << "\n", "\n" >>
            \o << "\\uf8ff", "\\xfc", "\\xe8", "\\xf5", "\\xd4", "\\u220f", "\\xe8", " ", " ",
                  "*", "*", "R", "\\u221a", "\\xa9", "g", "l", "e", "m", "e", "n", "t", "a",
                  "t", "i", "o", "n", "*", "*", ":", " " >>
            \o Format(control, "reglementation") \o << "\n" >>
            \o << "\\uf8ff", "\\xfc", "\\xec", "\\xe3", " ", "*", "*", "E", "x", "i", "g", "e",
                  "n", "c", "e", "*", "*", ":", " " >>
            \o Format(control, "exigence") \o << "\n" >>
            \o << "\\uf8ff", "\\xfc", "\\xec", "\\xd1", " ", "*", "*", "P", "r", "e", "u", "v",
                  "e", "*", "*", ":", " " >>
            \o Format(control, "preuve") \o << "\n" >>
            \o << "\\uf8ff", "\\xfc", "\\xee", "\\xdf", " ", "*", "*", "C", "o", "n", "t", "r",
                  "\\u221a", "\\xa5", "l", "e", "*", "*", ":", " " >>
            \o Format(control, "controle") \o << "\n", "\n" >>
    IN  IF "manual_verification" \in DOMAIN control /\ control.manual_verification
        THEN result_text
             \o << "\\u201a", "\\xf6", "\\u2020", "\\xd4", "\\u220f", "\\xe8", " ", " ", "*",
                   "*", "M", "a", "n", "u", "a", "l", " ", "V", "e", "r", "i", "f", "i", "c",
                   "a", "t", "i", "o", "n", " ", "R", "e", "q", "u", "i", "r", "e", "d", "*",
                   "*", "\n" >>
             \o (IF "notes" \in DOMAIN control /\ control.notes # <<>>
                 THEN << " ", " ", " ", "N", "o", "t", "e", ":", " " >> \o control.notes \o << "\n" >>
                 ELSE <<>>)
             \o << "\n", "\\u201a", "\\xf9", "\\xec", " ", "*", "*", "S", "t", "a", "t", "u",
                   "s", "*", "*", ":", " ", "M", "A", "N", "U", "A", "L", " ", "C", "H", "E",
                   "C", "K", " ", "R", "E", "Q", "U", "I", "R", "E", "D", "\n" >>
        ELSE IF azure_resources = <<>>
        THEN result_text
             \o << "\\u201a", "\\xf6", "\\u2020", "\\xd4", "\\u220f", "\\xe8", " ", " ", "N",
                   "o", " ", "A", "z", "u", "r", "e", " ", "r", "e", "s", "o", "u", "r", "c",
                   "e", " ", "v", "a", "l", "i", "d", "a", "t", "i", "o", "n", "s", " ", "d",
                   "e", "f", "i", "n", "e", "d", "\n" >>
        ELSE result_text
             \o ResourceChecks(azure_resources, results)
             \o << "\n" >> \o Rule(40) \o << "\n" >>
             \o (IF AllPassed(azure_resources, results)
                 THEN << "\\u201a", "\\xfa", "\\xd6", " ", "*", "*", "S", "t", "a", "t", "u",
                         "s", "*", "*", ":", " ", "P", "A", "S", "S", "E", "D", "\n" >>
                 ELSE << "\\u201a", "\\xf9", "\\xe5", " ", "*", "*", "S", "t", "a", "t", "u",
                         "s", "*", "*", ":", " ", "F", "A", "I", "L", "E", "D", "\n" >>)
             \o Rule(40) \o << "\n" >>

\* The status validate_all_controls derives from that text, by searching it
\* for the two phrases.
StatusOf(validation_result) ==
    IF Contains(validation_result, << "M", "a", "n", "u", "a", "l", " ", "V", "e", "r", "i",
                                      "f", "i", "c", "a", "t", "i", "o", "n", " ", "R", "e",
                                      "q", "u", "i", "r", "e", "d" >>)
    THEN "MANUAL"
    ELSE IF Contains(validation_result, << "S", "t", "a", "t", "u", "s", "*", "*", ":", " ",
                                           "P", "A", "S", "S", "E", "D" >>)
    THEN "PASSED"
    ELSE "FAILED"

\* validate_all_controls(args): the results list it builds, one entry per
\* control in checklist order; az[i] is what the queries for control i come
\* to. The text kept under 'details' is left out of an entry.
ValidateAllControls(checklist, az) ==
    LET controls == Controls(checklist)
    IN  [ i \in DOMAIN controls |->
            [ index |-> i - 1,
              regulation |-> controls[i].reglementation,
              requirement |-> controls[i].exigence,
              status |-> StatusOf(ValidateSingleControl(controls[i], i - 1, az[i])) ] ]

\* What a query of Azure may come to: one resource, none, az not logged
\* in, no answer within the timeout, az not installed.
AzResults ==
    { Listed(1), Listed(0),
      Failed(<< "E", "R", "R", "O", "R", ":", " ", "P", "l", "e", "a", "s", "e", " ", "r", "u", "n", " ", "'", "a", "z", " ", "l", "o", "g", "i", "n", "'", " ", "t", "o", " ", "s", "e", "t", "u", "p", " ", "a", "c", "c", "o", "u", "n", "t", ".", "\n" >>),
      TimedOut,
      Raised(<< "[", "E", "r", "r", "n", "o", " ", "2", "]", " ", "N", "o", " ", "s", "u", "c", "h", " ", "f", "i", "l", "e", " ", "o", "r", " ", "d", "i", "r", "e", "c", "t", "o", "r", "y", ":", " ", "'", "a", "z", "'" >>) }

\* The sequences that take their n-th element from the n-th set.
RECURSIVE Products(_)
Products(sets) ==
    IF sets = <<>> THEN { <<>> }
    ELSE { << first >> \o rest : first \in Head(sets), rest \in Products(Tail(sets)) }

\* What the queries for the controls of a checklist may come to: one query
\* is run for each resource requirement of each control, and each comes
\* to a result of its own.
AzureStates(checklist) ==
    LET controls == Controls(checklist)
    IN  Products([ i \in DOMAIN controls |->
                     [ DOMAIN controls[i].azure_resources -> AzResults ] ])

CallLoadComplianceChecklist ==
    /\ \E filename \in Filenames :
          compliance' = [compliance EXCEPT
                            !.current_checklist = LoadComplianceChecklist(@, filename),
                            !.last = [tool |-> "load_compliance_checklist", filename |-> filename]]
    /\ UNCHANGED << adapter, agency >>

CallValidateAllControls ==
    /\ IF NoChecklist(compliance.current_checklist)
       THEN compliance' = [compliance EXCEPT !.last = [tool |-> "validate_all_controls"]]
       ELSE \E az \in AzureStates(compliance.current_checklist) :
               compliance' = [compliance EXCEPT
                                 !.compliance_results =
                                     ValidateAllControls(compliance.current_checklist, az),
                                 !.last = [tool |-> "validate_all_controls"]]
    /\ UNCHANGED << adapter, agency >>

\* A report file written to the reports directory: its name without the
\* time stamp, the checklist loaded when it was written, and the results it
\* was written from.
Report(file) ==
    [ file |-> file, loaded |-> compliance.current_checklist,
      results |-> compliance.compliance_results ]

\* generate_compliance_report(args): the report file is written from the
\* stored results, unless there are none.
CallGenerateComplianceReport ==
    /\ Len(compliance.reports) < MaxReports
    /\ compliance' = [compliance EXCEPT
                          !.reports = IF compliance.compliance_results = <<>> THEN @
                                      ELSE Append(@, Report("compliance_report.md")),
                          !.last = [tool |-> "generate_compliance_report"]]
    /\ UNCHANGED << adapter, agency >>

\* The format argument of export_audit_report: absent, or a str.
Formats ==
    { <<>>, << << "J", "S", "O", "N" >> >>, << << "m", "a", "r", "k", "d", "o", "w", "n" >> >>,
      << << "p", "d", "f" >> >> }

\* export_audit_report(args): args.get("format", "markdown").lower() names
\* the file written from the stored results, audit_report.md or
\* audit_report.json; nothing is written when there are no results or for
\* another format.
ExportAuditReport(format) ==
    LET output_format ==
            Lower(IF format = <<>> THEN << "m", "a", "r", "k", "d", "o", "w", "n" >> ELSE format[1])
    IN  IF compliance.compliance_results = <<>> THEN <<>>
        ELSE IF output_format = << "m", "a", "r", "k", "d", "o", "w", "n" >>
        THEN << Report("audit_report.md") >>
        ELSE IF output_format = << "j", "s", "o", "n" >>
        THEN << Report("audit_report.json") >>
        ELSE <<>>

CallExportAuditReport ==
    /\ Len(compliance.reports) < MaxReports
    /\ \E format \in Formats :
          compliance' = [compliance EXCEPT
                            !.reports = @ \o ExportAuditReport(format),
                            !.last = [tool |-> "export_audit_report", format |-> format]]
    /\ UNCHANGED << adapter, agency >>

\* ------------------------------------------------------------------ specification

Step(t) ==
    \/ CallConnect(t)
    \/ CallDisconnect(t)
    \/ CallGetAgentOptions(t)
    \/ ConnectStart(t)
    \/ ConnectHandshakeOk(t)
    \/ ConnectHandshakeFail(t)
    \/ DisconnectStart(t)
    \/ DisconnectTeardownOk(t)
    \/ DisconnectTeardownFail(t)
    \/ CallQuery(t)
    \/ IterateNext(t)
    \/ IterateGot(t)
    \/ IterateEnd(t)
    \/ QueryStart(t)
    \/ QueryConnected(t)
    \/ QueryConnectFailed(t)
    \/ QuerySendOk(t)
    \/ QuerySendFail(t)
    \/ QueryReceive(t)
    \/ QueryEnd(t)
    \/ QueryReceiveFail(t)
    \/ CallProcessMessage(t)
    \/ ProcessNext(t)
    \/ ProcessGot(t)
    \/ ProcessEnd(t)
    \/ CallWith(t)
    \/ WithEnter(t)
    \/ WithEntered(t)
    \/ WithBodyEnds(t)
    \/ WithExited(t)

Next == \E t \in SeqTasks : Step(t)

Spec == Init /\ [][Next]_vars

\* The interactive program, as asyncio.run(main()) runs it: run_interactive()
\* awaited at top level or inside a bracket of the caller. The loop's queries run on a connected instance,
\* so the steps of query() that follow its own connect() are left out.
StepInteractive(t) ==
    \/ CallRunInteractive(t)
    \/ LoopEnter(t)
    \/ LoopEntered(t)
    \/ LoopRead(t)
    \/ LoopInput(t)
    \/ LoopInputRaises(t)
    \/ LoopNext(t)
    \/ LoopGot(t)
    \/ LoopAnswered(t)
    \/ LoopRaised(t)
    \/ LoopInterrupted(t)
    \/ Cancelled(t)
    \/ LoopExit(t)
    \/ LoopExited(t)
    \/ ConnectStart(t)
    \/ ConnectHandshakeOk(t)
    \/ ConnectHandshakeFail(t)
    \/ DisconnectStart(t)
    \/ DisconnectTeardownOk(t)
    \/ DisconnectTeardownFail(t)
    \/ QueryStart(t)
    \/ QuerySendOk(t)
    \/ QuerySendFail(t)
    \/ QueryReceive(t)
    \/ QueryEnd(t)
    \/ QueryReceiveFail(t)
    \/ CallWith(t)
    \/ WithEnter(t)
    \/ WithEntered(t)
    \/ WithBodyEnds(t)
    \/ WithExited(t)

NextInteractive == \E t \in SeqTasks : StepInteractive(t)

\* An interactive agent without custom tools, on an empty config.yaml: the
\* loop reads neither.
InitInteractive ==
    /\ Init
    /\ config_yaml = <<ConfigYaml(<<>>, <<>>)>>
    /\ custom_tools = <<>>

SpecInteractive == InitInteractive /\ [][NextInteractive]_vars

\* The interactive program under the event loop's scheduling: the one task
\* there is runs whenever it can take a step.
SpecInteractiveFair == SpecInteractive /\ WF_vars(NextInteractive)

\* Two tasks of one event loop share the instance and call connect(),
\* disconnect() and query() on it; a task runs up to its next await, and
\* either task may run next. The responses are empty: what the tasks share
\* is the flag and the client reference, never a message.
StepConcurrent(t) ==
    \/ CallConnect(t)
    \/ CallDisconnect(t)
    \/ CallQuery(t)
    \/ ConnectStart(t)
    \/ ConnectHandshakeOk(t)
    \/ ConnectHandshakeFail(t)
    \/ DisconnectStart(t)
    \/ DisconnectTeardownOk(t)
    \/ DisconnectTeardownFail(t)
    \/ QueryStart(t)
    \/ QueryConnected(t)
    \/ QueryConnectFailed(t)
    \/ QuerySendOk(t)
    \/ QuerySendFail(t)
    \/ QueryEnd(t)
    \/ QueryReceiveFail(t)
    \/ IterateNext(t)
    \/ IterateEnd(t)

NextConcurrent == \E t \in Tasks : StepConcurrent(t)

SpecConcurrent == InitInteractive /\ [][NextConcurrent]_vars

\* The ad agency project manager, first started on a new data directory:
\* its tools that assign or save called in any order with any arguments,
\* and the program started again on the files it left. The other tools
\* only read the stores.
NextAgency ==
    \/ CallInitAgency
    \/ CallCreateClient
    \/ CallCreateProject
    \/ CallAddTask
    \/ CallAssignTask
    \/ CallUpdateProgress
    \/ CallSetDeadline
    \/ CallTrackBudget
    \/ CallManageTeam
    \/ CallScheduleMeeting

SpecAgency == InitInteractive /\ [][NextAgency]_vars

\* The tools of the compliance checker that read or write the checklist and
\* the results, called in any order.
NextCompliance ==
    \/ CallLoadComplianceChecklist
    \/ CallValidateAllControls
    \/ CallGenerateComplianceReport
    \/ CallExportAuditReport

SpecCompliance == InitInteractive /\ [][NextCompliance]_vars

\* A program that constructs an agent or makes one call of the configuration
\* loader, in any environment.
StepConfig(t) ==
    \/ CallConstruct(t)
    \/ CallGetEnvVar(t)
    \/ CallLoadConfig(t)
    \/ TestConfiguration(t)

NextConfig == \E t \in SeqTasks : StepConfig(t)

SpecConfig == InitConfig /\ [][NextConfig]_vars

\* A program that calls validate_config on one configuration; the
\* environment plays no part in it.
InitValidate ==
    /\ InitConfig
    /\ environ = <<>>
    /\ env_file = <<>>
    /\ config_yaml = <<>>

NextValidate == \E t \in SeqTasks : CallValidateConfig(t)

SpecValidate == InitValidate /\ [][NextValidate]_vars

\* ------------------------------------------------------------------ properties

\* The task is back in its caller, which holds what the operation handed back.
Returned(t, fn) ==
    /\ \/ Running(t, "main", "ready")
       \/ Running(t, "with", "body")
    /\ ret[t].kind \in {"ok", "exc"}
    /\ ret[t].fn = fn

\* C1: connect() is idempotent. Among the connect() calls made in succession
\* with no disconnect() call between them, once the first handshake has
\* succeeded there has been exactly one handshake, one options value built
\* and one client constructed, however many calls there were.
C1_ConnectIdempotent ==
    hist.run.first = "ok" =>
        /\ hist.run.handshakes = 1
        /\ hist.run.options = 1
        /\ hist.run.clients = 1

\* Three connect() calls in a row have returned, the first handshake having
\* succeeded.
C1_Witness ==
    /\ hist.run.first = "ok"
    /\ hist.run.connects >= 3
    /\ Returned(1, "connect")

\* C3: disconnect() while the connected flag is false starts no teardown,
\* returns normally and leaves the flag and the client reference unchanged;
\* so no session is torn down twice.
C3_DisconnectNoOp ==
    /\ [](\A c \in DOMAIN clients : clients[c].closes <= 1)
    /\ [][\A t \in SeqTasks :
            (Running(t, "disconnect", "start") /\ ~is_connected) =>
                /\ hist'.teardowns = hist.teardowns
                /\ is_connected' = is_connected
                /\ client' = client
                /\ clients' = clients
                /\ ret'[t].kind = "ok"]_vars

\* disconnect() has returned twice in a row on an instance that was connected:
\* one teardown, and the flag is false.
C3_Witness ==
    /\ Returned(1, "disconnect")
    /\ hist.calls = 3
    /\ hist.handshakes = 1
    /\ hist.teardowns = 1
    /\ ~is_connected
    /\ client # None

\* C4: no prompt is sent while disconnected. Every prompt went to a client
\* whose handshake had succeeded, with the connected flag true, after at most
\* one connect() by the generator; and a true flag implies a client is set.
C4_NoQueryWhileDisconnected ==
    /\ is_connected => client # None
    /\ \A i \in DOMAIN sent :
          /\ sent[i].connected
          /\ sent[i].session = "open"
          /\ sent[i].connects <= 1

\* A prompt was sent by a generator that had to connect first.
C4_Witness ==
    \E i \in DOMAIN sent : sent[i].connects = 1 /\ sent[i].connected

\* C5: a failed handshake is fatal. An operation in which the handshake failed
\* (connect(), an iteration of query(), process_message(), or the entry of
\* the bracket) hands the error to its caller, having started one handshake
\* and sent no prompt, and the connected flag is false.
HandshakeFailedIn(t) == ret[t].failures >= 1

C5_ConnectFailureFatal ==
    \A t \in SeqTasks :
        /\ \A fn \in {"connect", "iterate", "process_message"} :
              (Returned(t, fn) /\ HandshakeFailedIn(t)) =>
                  /\ ret[t].kind = "exc"
                  /\ ret[t].val = "ConnectError"
                  /\ ret[t].handshakes = 1
                  /\ ret[t].prompts = 0
                  /\ ~is_connected
        /\ (Returned(t, "with") /\ ret[t].body = "none") =>
              /\ ret[t].kind = "exc"
              /\ ret[t].val = "ConnectError"
              /\ ret[t].handshakes = 1
              /\ ret[t].prompts = 0
              /\ ret[t].exits = 0
              /\ ~is_connected

\* The handshake failed under query(), and its caller holds the error.
C5_Witness ==
    /\ Returned(1, "iterate")
    /\ HandshakeFailedIn(1)
    /\ ret[1].kind = "exc"
    /\ ret[1].val = "ConnectError"

\* C2 as stated: after the body of the bracket completes, normally or by
\* raising, its exit has called disconnect() exactly once and the connected
\* flag is false.
C2_BracketDisconnects ==
    \A t \in SeqTasks :
        (Returned(t, "with") /\ ret[t].body # "none") =>
            /\ ret[t].exits = 1
            /\ ~is_connected

\* C2, amended: the exit has called disconnect() exactly once, and the flag
\* is false unless the session teardown raised out of the bracket.
C2_BracketDisconnectsUnlessTeardownRaises ==
    \A t \in SeqTasks :
        (Returned(t, "with") /\ ret[t].body # "none") =>
            /\ ret[t].exits = 1
            /\ ~(ret[t].kind = "exc" /\ ret[t].val = "TeardownError") => ~is_connected

\* The body of a bracket raised, and the bracket has been left with the
\* body's error after a teardown.
C2_Witness ==
    /\ Returned(1, "with")
    /\ ret[1].body = "raised"
    /\ ret[1].kind = "exc"
    /\ ret[1].val = "BodyError"
    /\ hist.teardowns = 1
    /\ ~is_connected

\* What config.yaml says; nothing when there is no file.
StaticConfig == IF config_yaml = <<>> THEN <<>> ELSE config_yaml[1]

\* The list the agent was configured with in config.yaml; empty when the key
\* is absent.
StaticAllowedTools ==
    IF "allowed_tools" \in DOMAIN StaticConfig THEN StaticConfig["allowed_tools"] ELSE <<>>

\* C6 as stated: every get_agent_options() call yields the statically
\* configured list followed by one server-qualified identifier per tool, the
\* server segment being the configured name, or the fixed default when no
\* name is configured. The identifier is spelled the way the code spells a
\* qualified name, mcp__<server>__<tool>, so that only the choice of the
\* server segment and the number of identifiers are in question.
C6_QualifiedByServerName ==
    \A i \in DOMAIN built :
        built[i].allowed_at_return =
            StaticAllowedTools \o
            [ j \in 1..Len(custom_tools) |->
                "mcp__"
                \o (IF "name" \in DOMAIN StaticConfig THEN StaticConfig["name"] ELSE "agent_tools")
                \o "__" \o custom_tools[j] ]

\* C7: without custom tools, every get_agent_options() call yields an empty
\* tool-server mapping and the statically configured list, nothing appended.
C7_NoToolsNoServers ==
    custom_tools = <<>> =>
        \A i \in DOMAIN built :
            /\ DOMAIN built[i].options.mcp_servers = {}
            /\ built[i].allowed_at_return = StaticAllowedTools

\* Options were built twice for an agent without tools and with a configured
\* list.
C7_Witness ==
    /\ custom_tools = <<>>
    /\ StaticAllowedTools # <<>>
    /\ Len(built) >= 2

\* C8: get_agent_options() never changes the static configuration, and an
\* options value it returned is not changed by a later call.
C8_OptionsFresh ==
    /\ "allowed_tools" \in DOMAIN agent_config =>
          heap[agent_config["allowed_tools"]] = StaticAllowedTools
    /\ \A i \in DOMAIN built :
          heap[built[i].options.allowed_tools] = built[i].allowed_at_return

\* The messages of a stream that process_message keeps: the texts of the text
\* blocks of the assistant messages.
RECURSIVE Blocks(_)
Blocks(msgs) ==
    IF msgs = <<>> THEN <<>>
    ELSE (IF Head(msgs).type = "AssistantMessage" THEN Head(msgs).content ELSE <<>>)
         \o Blocks(Tail(msgs))

IsTextBlock(b) == b.type = "TextBlock"

RECURSIVE NewlineJoined(_)
NewlineJoined(blocks) ==
    IF blocks = <<>> THEN ""
    ELSE IF Len(blocks) = 1 THEN blocks[1].text
    ELSE NewlineJoined(SubSeq(blocks, 1, Len(blocks) - 1)) \o "\n" \o blocks[Len(blocks)].text

\* C9: query() forwards the response stream verbatim. What its consumer has
\* been given is what receive_response() has yielded, and the iteration ends
\* normally exactly when the underlying stream has ended.
C9_QueryForwardsVerbatim ==
    \A t \in SeqTasks :
        /\ Running(t, "iterate", "next") =>
              /\ Top(t).got = underlying[t].msgs
              /\ ~underlying[t].ended
        /\ Returned(t, "iterate") =>
              /\ ret[t].kind = "ok" <=> underlying[t].ended
              /\ ret[t].kind = "ok" => ret[t].val = underlying[t].msgs

\* A stream of two messages was forwarded and ended.
C9_Witness ==
    /\ Returned(1, "iterate")
    /\ ret[1].kind = "ok"
    /\ Len(ret[1].val) = 2
    /\ ret[1].val[1] # ret[1].val[2]

\* C10: process_message() drains the stream and returns the texts of the text
\* blocks of the assistant messages, in order, joined by one newline.
C10_ProcessMessageJoinsTexts ==
    \A t \in SeqTasks :
        Returned(t, "process_message") =>
            /\ ret[t].kind = "ok" <=> underlying[t].ended
            /\ ret[t].kind = "ok" =>
                  ret[t].val = NewlineJoined(SelectSeq(Blocks(underlying[t].msgs), IsTextBlock))

\* Text blocks "A" then "B" give "A\nB", the tool invocation between them
\* left out.
C10_Witness ==
    /\ Returned(1, "process_message")
    /\ ret[1].kind = "ok"
    /\ ret[1].val = "A\nB"

\* The turns of the loop the task runs or has just left, and where the loop is.
InLoop(t) == \E n \in DOMAIN stack[t] : stack[t][n].fn = "run_interactive"
LoopFrame(t) == stack[t][CHOOSE n \in DOMAIN stack[t] : stack[t][n].fn = "run_interactive"]
Turns(t) ==
    IF InLoop(t) THEN LoopFrame(t).turns
    ELSE IF "turns" \in DOMAIN ret[t] THEN ret[t].turns
    ELSE <<>>
LoopEnded(t) ==
    IF InLoop(t) THEN LoopFrame(t).pc \in {"exit", "exiting"}
    ELSE "turns" \in DOMAIN ret[t]

\* The line, with whitespace trimmed from both ends, is one of the four
\* words in some letter case.
SameLetter(c, letter) ==
    \/ c = letter
    \/ \E k \in DOMAIN LowerCase : LowerCase[k] = letter /\ UpperCase[k] = c
IsSentinelLine(line) ==
    \E word \in { <<"q", "u", "i", "t">>, <<"e", "x", "i", "t">>, <<"b", "y", "e">>,
                  <<"g", "o", "o", "d", "b", "y", "e">> } :
        \E from \in 1..Len(line) :
            /\ from + Len(word) - 1 <= Len(line)
            /\ \A k \in 1..Len(word) : SameLetter(line[from + k - 1], word[k])
            /\ \A k \in DOMAIN line :
                  (k < from \/ k >= from + Len(word)) => line[k] \in Whitespace

\* C11: a line that, trimmed, is quit, exit, bye or goodbye in any letter
\* case ends the loop, and no query() call is made and no prompt is sent for
\* it.
C11_SentinelEndsLoop ==
    \A t \in SeqTasks :
        \A i \in DOMAIN Turns(t) :
            IsSentinelLine(Turns(t)[i].line) =>
                /\ Turns(t)[i].outcome = "quit"
                /\ ~Turns(t)[i].queried
                /\ i = Len(Turns(t))
                /\ LoopEnded(t)
                /\ Len(sent) = Turns(t)[i].sent

\* The loop has returned after a line that is a sentinel only once it is
\* trimmed and its letters are lowered, read after an answered turn.
C11_Witness ==
    /\ Returned(1, "run_interactive")
    /\ Len(ret[1].turns) = 2
    /\ ret[1].turns[1].outcome = "answered"
    /\ ret[1].turns[2].line = <<" ", "E", "x", "i", "t", " ">>
    /\ ret[1].turns[2].outcome = "quit"

\* What a user interrupt raises in the task: KeyboardInterrupt, or the
\* CancelledError of the cancellation that the interrupt requests.
UserInterrupts == { "KeyboardInterrupt", "CancelledError" }

\* C12: an exception other than a user interrupt that is raised in a turn
\* does not end the loop and does not leave run_interactive: after such a
\* turn the loop is reading the next line or has read it, and
\* run_interactive raises only what the bracket's entry or exit raised, or
\* what a user interrupt raised.
C12_TurnErrorsContained ==
    \A t \in SeqTasks :
        /\ \A i \in DOMAIN Turns(t) :
              (Turns(t)[i].outcome = "raised" /\ Turns(t)[i].error \notin UserInterrupts) =>
                  \/ i < Len(Turns(t))
                  \/ InLoop(t) /\ LoopFrame(t).pc \in {"input", "reading"}
        /\ (Returned(t, "run_interactive") /\ ret[t].kind = "exc") =>
              \/ ret[t].val = "ConnectError" /\ ret[t].turns = <<>>
              \/ ret[t].val = "TeardownError"
              \/ ret[t].val \in UserInterrupts

\* The response stream raised in the first turn, and the second turn was
\* read and answered.
C12_Witness ==
    /\ Len(Turns(1)) = 2
    /\ Turns(1)[1].outcome = "raised"
    /\ Turns(1)[1].error = "StreamError"
    /\ Turns(1)[2].outcome = "answered"

\* C13: a user interrupt that reaches the task while the loop reads input
\* or iterates the response stream is caught by the loop's handler, which
\* prints the farewell, and ends the loop; it does not leave run_interactive
\* as an exception, and when run_interactive returns the connected flag is
\* false.
C13_InterruptEndsLoop ==
    \A t \in SeqTasks :
        \A i \in DOMAIN Turns(t) :
            Turns(t)[i].error \in UserInterrupts =>
                /\ Turns(t)[i].printed = "goodbye"
                /\ i = Len(Turns(t))
                /\ LoopEnded(t)
                /\ Returned(t, "run_interactive") =>
                      /\ ret[t].kind = "exc" => ret[t].val = "TeardownError"
                      /\ ret[t].kind = "ok" => ~is_connected

\* The task's one call was of fn, and ret holds what it handed back.
Did(t, fn) == ret[t].kind \in {"ok", "exc"} /\ ret[t].fn = fn

\* The value of the variable in os.environ as the call left it, or the
\* default when it is not set.
EnvOr(name, default) == IF name \in DOMAIN environ THEN environ[name] ELSE default

\* C14 as stated: constructing an agent on a directory without config.yaml
\* does not raise and leaves agent_config the empty mapping.
C14_NoConfigYamlNeverRaises ==
    \A t \in SeqTasks :
        (Did(t, "__init__") /\ config_yaml = <<>>) =>
            /\ ret[t].kind = "ok"
            /\ agent_config = <<>>

\* The string is a plain decimal numeral.
AllDigits(str) ==
    /\ str # <<>>
    /\ \A i \in DOMAIN str :
          str[i] \in {"0", "1", "2", "3", "4", "5", "6", "7", "8", "9"}

\* C14, amended: constructing an agent on a directory without config.yaml
\* raises only what load_config raises, a ValueError when ANTHROPIC_API_KEY
\* is not set or when MCP_SERVER_PORT is set to something that is not a
\* number; with the key set and the port unset or a decimal numeral it
\* returns. When it returns, agent_config is the empty mapping, so that the
\* options built from it are the adapter defaults.
C14_NoConfigYamlIsEmptyConfig ==
    \A t \in SeqTasks :
        (Did(t, "__init__") /\ config_yaml = <<>>) =>
            /\ ( /\ "ANTHROPIC_API_KEY" \in DOMAIN environ
                 /\ AllDigits(EnvOr("MCP_SERVER_PORT", <<"3", "0", "0", "0">>)) )
               => ret[t].kind = "ok"
            /\ ret[t].kind = "exc" =>
                  /\ ret[t].val = "ValueError"
                  /\ \/ "ANTHROPIC_API_KEY" \notin DOMAIN environ
                     \/ /\ "MCP_SERVER_PORT" \in DOMAIN environ
                        /\ ~AllDigits(environ["MCP_SERVER_PORT"])
            /\ ret[t].kind = "ok" =>
                  /\ agent_config = <<>>
                  /\ LET made == GetAgentOptions(agent_config, heap, <<"greet">>)
                     IN  /\ made.options.permission_mode = "default"
                         /\ made.options.mcp_servers.agent_tools.name = "agent-tools"
                         /\ made.heap[made.options.allowed_tools] = <<"mcp__agent_tools__greet">>

\* An agent has been constructed on a directory without config.yaml.
C14_Witness ==
    /\ Did(1, "__init__")
    /\ ret[1].kind = "ok"
    /\ config_yaml = <<>>
    /\ agent_config = <<>>
    /\ Running(1, "main", "ready")

\* C15: get_env_var raises ValueError exactly when the variable is unset and
\* no default is given, and otherwise returns the variable's value, or the
\* default when it is unset; load_config and the constructor raise
\* ValueError when ANTHROPIC_API_KEY is not set, and then no instance exists.
C15_RequiredValueIsFatal ==
    \A t \in SeqTasks :
        /\ Did(t, "get_env_var") =>
              /\ ret[t].kind = "exc" <=>
                    (ret[t].key \notin DOMAIN environ /\ ret[t].default = <<>>)
              /\ ret[t].kind = "exc" => ret[t].val = "ValueError"
              /\ ret[t].kind = "ok" =>
                    ret[t].val = IF ret[t].key \in DOMAIN environ THEN environ[ret[t].key]
                                 ELSE ret[t].default[1]
        /\ (Did(t, "load_config") /\ "ANTHROPIC_API_KEY" \notin DOMAIN environ) =>
              /\ ret[t].kind = "exc"
              /\ ret[t].val = "ValueError"
        /\ (Did(t, "__init__") /\ "ANTHROPIC_API_KEY" \notin DOMAIN environ) =>
              /\ ret[t].kind = "exc"
              /\ ret[t].val = "ValueError"
              /\ agent_config = Unset
              /\ config = Unset

\* The constructor has raised in an environment that sets other variables
\* but not the API key, on a directory without a .env file.
C15_Witness ==
    /\ Did(1, "__init__")
    /\ ret[1].kind = "exc"
    /\ env_file = <<>>
    /\ "ANTHROPIC_API_KEY" \notin DOMAIN environ
    /\ "AGENT_NAME" \in DOMAIN environ

\* The configuration satisfies every rule: an API key that starts with
\* sk-ant- and has at least twenty characters, a non-empty agent name of
\* letters, digits, hyphens and underscores, and no port or an integer port
\* in 1..65535.
HasString(cfg, key) == key \in DOMAIN cfg /\ cfg[key].type = "str"
KeyWellFormed(k) ==
    /\ Len(k) >= 20
    /\ SubSeq(k, 1, 7) = <<"s", "k", "-", "a", "n", "t", "-">>
NameWellFormed(n) ==
    /\ n # <<>>
    /\ \A i \in DOMAIN n :
          \/ \E k \in DOMAIN LowerCase : n[i] \in {LowerCase[k], UpperCase[k]}
          \/ n[i] \in {"0", "1", "2", "3", "4", "5", "6", "7", "8", "9", "-", "_"}
PortInRange(p) == p.type = "int" /\ p.val \in 1..65535
ValidConfig(cfg) ==
    /\ HasString(cfg, "anthropic_api_key") /\ KeyWellFormed(cfg["anthropic_api_key"].val)
    /\ HasString(cfg, "agent_name") /\ NameWellFormed(cfg["agent_name"].val)
    /\ "mcp_server_port" \in DOMAIN cfg => PortInRange(cfg["mcp_server_port"])

\* C16: validate_config returns the empty list for every configuration that
\* satisfies every rule.
C16_ValidConfigHasNoErrors ==
    \A t \in SeqTasks :
        (Did(t, "validate_config") /\ ValidConfig(ret[t].config)) =>
            /\ ret[t].kind = "ok"
            /\ ret[t].val = <<>>

\* validate_config was called on a valid configuration whose key has exactly
\* twenty characters and whose port is the largest one.
C16_Witness ==
    /\ Did(1, "validate_config")
    /\ ValidConfig(ret[1].config)
    /\ Len(ret[1].config["anthropic_api_key"].val) = 20
    /\ "mcp_server_port" \in DOMAIN ret[1].config
    /\ ret[1].config["mcp_server_port"].val = 65535
    /\ ret[1].val = <<>>

\* The configuration breaks a rule: the API key or the agent name is
\* missing or empty, the key is malformed, the name holds a character
\* outside the class, or a port is present (and not None) that is not an
\* integer in 1..65535.
Missing(cfg, key) ==
    \/ key \notin DOMAIN cfg
    \/ cfg[key].type = "NoneType"
    \/ cfg[key].type = "str" /\ cfg[key].val = <<>>
BreaksRule(cfg) ==
    \/ Missing(cfg, "anthropic_api_key")
    \/ Missing(cfg, "agent_name")
    \/ HasString(cfg, "anthropic_api_key") /\ ~KeyWellFormed(cfg["anthropic_api_key"].val)
    \/ HasString(cfg, "agent_name") /\ ~NameWellFormed(cfg["agent_name"].val)
    \/ /\ "mcp_server_port" \in DOMAIN cfg
       /\ cfg["mcp_server_port"].type # "NoneType"
       /\ ~PortInRange(cfg["mcp_server_port"])

\* C17 as stated: validate_config returns a non-empty list for every
\* configuration that breaks a rule.
C17_EveryViolationReported ==
    \A t \in SeqTasks :
        (Did(t, "validate_config") /\ BreaksRule(ret[t].config)) =>
            /\ ret[t].kind = "ok"
            /\ ret[t].val # <<>>

\* The numeral a string holds: its decimal digits, each written as the
\* ASCII digit of its value, without the whitespace around them and the
\* underscores between them.
IsDecimalDigit(c) == c \in AllDecimalDigits
Numeral(str) ==
    LET digits == SelectSeq(str, IsDecimalDigit)
    IN  [i \in DOMAIN digits |-> Digits[DigitValue(digits[i]) + 1]]

\* C18: when load_config returns, each key holds the value of its
\* environment variable when that is set and the fixed default otherwise,
\* the port as the integer the string denotes; anthropic_api_key holds the
\* value of ANTHROPIC_API_KEY, which is set.
C18_LoadConfigValues ==
    \A t \in SeqTasks :
        (Did(t, "load_config") /\ ret[t].kind = "ok") =>
            /\ DOMAIN ret[t].val = { "anthropic_api_key", "agent_name", "agent_version",
                                     "log_level", "mcp_server_port", "mcp_server_host" }
            /\ "ANTHROPIC_API_KEY" \in DOMAIN environ
            /\ ret[t].val.anthropic_api_key = Str(environ["ANTHROPIC_API_KEY"])
            /\ ret[t].val.agent_name =
                  Str(EnvOr("AGENT_NAME", <<"c", "l", "a", "u", "d", "e", "-", "a", "g", "e", "n", "t">>))
            /\ ret[t].val.agent_version = Str(EnvOr("AGENT_VERSION", <<"1", ".", "0", ".", "0">>))
            /\ ret[t].val.log_level = Str(EnvOr("LOG_LEVEL", <<"I", "N", "F", "O">>))
            /\ ret[t].val.mcp_server_host =
                  Str(EnvOr("MCP_SERVER_HOST", <<"l", "o", "c", "a", "l", "h", "o", "s", "t">>))
            /\ ret[t].val.mcp_server_port.type = "int"
            /\ "MCP_SERVER_PORT" \notin DOMAIN environ => ret[t].val.mcp_server_port.val = 3000
            /\ Decimal(ret[t].val.mcp_server_port.val) =
                  Numeral(EnvOr("MCP_SERVER_PORT", <<"3", "0", "0", "0">>))

\* load_config has returned in an environment that sets the name and the
\* port and leaves the log level and the host to their defaults.
C18_Witness ==
    /\ Did(1, "load_config")
    /\ ret[1].kind = "ok"
    /\ "AGENT_NAME" \in DOMAIN environ
    /\ "MCP_SERVER_PORT" \in DOMAIN environ
    /\ ret[1].val.mcp_server_port = Int_(8080)
    /\ "LOG_LEVEL" \notin DOMAIN environ
    /\ "MCP_SERVER_HOST" \notin DOMAIN environ

\* C19 as stated: with ANTHROPIC_API_KEY unset, the configuration test of
\* the setup script loads a configuration without an exception, and
\* validate_config reports the missing API key on it.
C19_WorksWithoutApiKey ==
    \A t \in SeqTasks :
        (Did(t, "test_configuration") /\ "ANTHROPIC_API_KEY" \notin DOMAIN environ) =>
            /\ ret[t].loaded
            /\ ret[t].val
            /\ \E i \in DOMAIN ret[t].errors :
                  ret[t].errors[i] = "Missing required field: anthropic_api_key"

\* No handshake and no teardown has failed so far.
AllSucceeded ==
    /\ hist.failures = 0
    /\ hist.teardowns = Cardinality({ c \in DOMAIN clients : clients[c].closes = 1 })

\* C20: as long as every handshake and every teardown succeeds, between
\* operations the connected flag is true exactly when connect() has been
\* called since the last disconnect() call (or since construction); and a
\* connect() that follows a disconnect() builds one new options value,
\* constructs one new client on it and performs one handshake, on that
\* client.
C20_Lifecycle ==
    \A t \in SeqTasks :
        /\ ( /\ AllSucceeded
             /\ Running(t, "main", "ready") \/ Running(t, "with", "body") )
           => (is_connected <=> hist.run.connects >= 1)
        /\ ( /\ AllSucceeded
             /\ Returned(t, "connect")
             /\ hist.run.connects = 1
             /\ hist.teardowns >= 1 )
           => /\ is_connected
              /\ ret[t].handshakes = 1
              /\ hist.run.options = 1
              /\ hist.run.clients = 1
              /\ client = Len(clients)
              /\ clients[client].state = "open"
              /\ clients[client].closes = 0
              /\ clients[client].options = built[Len(built)].options
              /\ \A c \in 1..(client - 1) : clients[c].state = "closed"

\* connect(), disconnect() and connect() again have returned: the first
\* session is closed and a second one is open.
C20_Witness ==
    /\ Returned(1, "connect")
    /\ AllSucceeded
    /\ hist.teardowns = 1
    /\ hist.run.connects = 1
    /\ Len(clients) = 2
    /\ clients[1].state = "closed"
    /\ clients[2].state = "open"
    /\ is_connected


\* ------------------------------------------------------------------ C21

\* The sessions an instance has made that are being handshaken or are open.
LiveSessions == { c \in DOMAIN clients : clients[c].state \in {"connecting", "open"} }

\* A task is about to test the connected flag, in connect() or in query().
AboutToTest(t) == Running(t, "connect", "start") \/ Running(t, "query", "start")

\* C21: connect() is atomic with respect to the connected flag: under any
\* interleaving of connect() and query() calls of two tasks on one instance,
\* no task tests the flag while another task's handshake is pending, and the
\* instance makes and handshakes at most one client session until
\* disconnect() is called.
C21_ConnectAtomic ==
    /\ Cardinality(LiveSessions) <= 1
    /\ \A t, u \in Tasks :
          AboutToTest(t) /\ Running(u, "connect", "handshake") => is_connected


\* ------------------------------------------------------------------ C22

\* The prompts sent to the client in turn i of the loop.
SentIn(t, i) ==
    (IF i < Len(Turns(t)) THEN Turns(t)[i + 1].sent ELSE Len(sent)) - Turns(t)[i].sent

\* The response stream of turn i was opened: it ended, or it raised.
Streamed(t, i) == Turns(t)[i].outcome = "answered" \/ Turns(t)[i].error = "StreamError"

\* C22 as stated: a prompt is sent to the client only after the response
\* stream of every earlier turn has been consumed to its end.
C22_PromptAfterStreamEnd ==
    \A t \in SeqTasks :
        \A i, j \in DOMAIN Turns(t) :
            (i < j /\ Streamed(t, i) /\ SentIn(t, j) >= 1) => Turns(t)[i].ended

\* C22: the loop has at most one query in flight: a line is read only once
\* the turn before it is over, a turn sends at most one prompt, an answered
\* turn has consumed its response stream to the end, and a turn that has not
\* was ended by an exception of the send or of the stream.
C22_OneQueryInFlight ==
    \A t \in SeqTasks :
        /\ Cardinality({ n \in DOMAIN stack[t] : stack[t][n].fn = "query" }) <= 1
        /\ \A i \in DOMAIN Turns(t) :
              /\ SentIn(t, i) <= 1
              /\ Turns(t)[i].outcome = "answered" => Turns(t)[i].ended
              /\ i < Len(Turns(t)) =>
                    /\ Turns(t)[i].outcome \in {"empty", "answered", "raised"}
                    /\ (Turns(t)[i].queried /\ ~Turns(t)[i].ended) =>
                          /\ Turns(t)[i].outcome = "raised"
                          /\ Turns(t)[i].error \in {"QueryError", "StreamError"}

\* The response stream of the first turn raised before its end, and the
\* prompt of the second turn was sent and answered.
C22_Witness ==
    /\ Len(Turns(1)) = 2
    /\ Turns(1)[1].error = "StreamError"
    /\ ~Turns(1)[1].ended
    /\ SentIn(1, 2) = 1
    /\ Turns(1)[2].outcome = "answered"
    /\ Turns(1)[2].ended


\* ------------------------------------------------------------------ C23

\* Turn i was ended by an error of the processing of its prompt.
ProcessingError(t, i) == Turns(t)[i].error \in {"QueryError", "StreamError"}

\* C23 as stated: a processing error in a turn makes the loop print an error
\* message and exit the loop, without the exception leaving run_interactive.
C23_ErrorExitsLoop ==
    \A t \in SeqTasks :
        \A i \in DOMAIN Turns(t) :
            ProcessingError(t, i) =>
                /\ Turns(t)[i].printed = "error"
                /\ i = Len(Turns(t))
                /\ LoopEnded(t)

\* C23: a processing error in a turn makes the loop print an error message
\* and go on to read the next line; the exception does not leave
\* run_interactive.
C23_ErrorPrintedLoopGoesOn ==
    \A t \in SeqTasks :
        /\ \A i \in DOMAIN Turns(t) :
              ProcessingError(t, i) =>
                  /\ Turns(t)[i].printed = "error"
                  /\ i = Len(Turns(t)) =>
                        /\ InLoop(t)
                        /\ LoopFrame(t).pc \in {"input", "reading"}
        /\ (Returned(t, "run_interactive") /\ ret[t].kind = "exc") =>
              ret[t].val \notin {"QueryError", "StreamError"}

\* The send of the first turn raised, the error was printed, the next line
\* read was a sentinel, and run_interactive has returned normally.
C23_Witness ==
    /\ Returned(1, "run_interactive")
    /\ ret[1].kind = "ok"
    /\ Len(ret[1].turns) = 2
    /\ ret[1].turns[1].error = "QueryError"
    /\ ret[1].turns[1].printed = "error"
    /\ ret[1].turns[2].outcome = "quit"


\* ------------------------------------------------------------------ C24

\* run_interactive() has returned to a main() that awaited it outside any
\* bracket, on an instance that was not connected.
RanAtTopLevel(t) ==
    /\ Returned(t, "run_interactive")
    /\ Running(t, "main", "ready")
    /\ ~ret[t].was_connected

\* run_interactive() has returned into the body of the bracket it was
\* awaited in.
RanInBracket(t) ==
    /\ Returned(t, "run_interactive")
    /\ Running(t, "with", "body")

\* A bracket entered on an instance that was not connected has been left,
\* and the one thing its body did was to await run_interactive().
BracketAroundRun(t) ==
    /\ Returned(t, "with")
    /\ ~ret[t].was_connected
    /\ ret[t].looped
    /\ ret[t].calls = 1

\* C24 as stated: a run_interactive() call makes exactly one handshake and
\* one teardown, whatever its turns; awaited inside a bracket, the bracket
\* and the call together still make one handshake and one teardown.
C24_OneHandshakeOneTeardown ==
    \A t \in SeqTasks :
        /\ RanAtTopLevel(t) => ret[t].handshakes = 1 /\ ret[t].teardowns = 1
        /\ BracketAroundRun(t) => ret[t].handshakes = 1 /\ ret[t].teardowns = 1

\* C24: a run_interactive() call on an instance that is not connected makes
\* exactly one handshake, whatever its turns; when the handshake fails the
\* call raises and makes no teardown, and otherwise it attempts exactly one
\* teardown. Awaited inside a bracket, it makes no handshake and attempts one
\* teardown, and the bracket as a whole makes one handshake and closes at
\* most one session: its own exit attempts a teardown only when the one
\* attempted by run_interactive() raised.
C24_OneHandshakePerRun ==
    \A t \in SeqTasks :
        /\ RanAtTopLevel(t) =>
              /\ ret[t].handshakes = 1
              /\ ret[t].failures = 1 => ret[t].kind = "exc" /\ ret[t].teardowns = 0
              /\ ret[t].failures = 0 => ret[t].teardowns = 1
        /\ (RanInBracket(t) /\ ret[t].was_connected) =>
              /\ ret[t].handshakes = 0
              /\ ret[t].teardowns = 1
        /\ BracketAroundRun(t) =>
              /\ ret[t].handshakes = 1
              /\ ret[t].failures = 0
              /\ ret[t].closed <= 1
              /\ ret[t].teardowns \in {1, 2}
              /\ ret[t].teardowns = 2 => ret[t].teardowns > ret[t].closed
              /\ ret[t].teardowns = ret[t].closed => ret[t].teardowns = 1

\* A bracket around run_interactive() has been left after a turn that sent
\* a prompt: one handshake, and one teardown, made by run_interactive().
C24_Witness ==
    /\ BracketAroundRun(1)
    /\ ret[1].kind = "ok"
    /\ ret[1].prompts >= 1
    /\ ret[1].handshakes = 1
    /\ ret[1].teardowns = 1
    /\ ret[1].closed = 1


\* ------------------------------------------------------------------ C25

\* input() returned a line in turn i; the line is made of whitespace alone.
ReadLine(t, i) == Turns(t)[i].queried \/ Turns(t)[i].outcome # "raised"
IsBlankLine(line) == \A k \in DOMAIN line : line[k] \in Whitespace

\* C25: for a line that is not empty once trimmed and is not a sentinel the
\* loop calls query() once, and one prompt is sent once the turn is over;
\* for an empty or whitespace-only line it calls query() not at all, sends
\* nothing, and goes on to read the next line.
C25_QueryOncePerLine ==
    \A t \in SeqTasks :
        \A i \in DOMAIN Turns(t) :
            LET turn == Turns(t)[i]
            IN  ReadLine(t, i) =>
                  /\ (~IsBlankLine(turn.line) /\ ~IsSentinelLine(turn.line)) =>
                        /\ turn.queried
                        /\ SentIn(t, i) <= 1
                        /\ turn.outcome \in {"answered", "raised"} => SentIn(t, i) = 1
                  /\ IsBlankLine(turn.line) =>
                        /\ ~turn.queried
                        /\ turn.outcome = "empty"
                        /\ SentIn(t, i) = 0
                        /\ i = Len(Turns(t)) =>
                              InLoop(t) /\ LoopFrame(t).pc \in {"input", "reading"}

\* A line of two spaces was read, and then a line that was answered: no
\* prompt was sent for the first and one for the second.
C25_Witness ==
    /\ Len(Turns(1)) = 2
    /\ Turns(1)[1].line = <<" ", " ">>
    /\ Turns(1)[1].outcome = "empty"
    /\ SentIn(1, 1) = 0
    /\ Turns(1)[2].outcome = "answered"
    /\ SentIn(1, 2) = 1


\* ------------------------------------------------------------------ C26

\* Standard input of the loop is at its end: every further read fails.
AtEndOfInput(t) == InLoop(t) /\ LoopFrame(t).eof

\* C26: once standard input has reached its end, the loop is eventually
\* left and run_interactive() is over, its bracket exited.
C26_TerminatesAtEndOfInput == AtEndOfInput(1) ~> ~InLoop(1)


\* ------------------------------------------------------------------ C27

\* C27: when the teardown raises inside disconnect(), the caller receives
\* the error, the connected flag is still true and the client reference is
\* the one held before, its session still open; a disconnect() called with
\* the flag true attempts the teardown, and a connect() called with the flag
\* true returns without a handshake and leaves flag and client as they were.
C27_TeardownFailureKeepsState ==
    \A t \in SeqTasks :
        /\ (Returned(t, "disconnect") /\ ret[t].kind = "exc") =>
              /\ ret[t].val = "TeardownError"
              /\ ret[t].teardowns = 1
              /\ ret[t].was_connected
              /\ is_connected
              /\ client # None
              /\ client = ret[t].had_client
              /\ clients[client].state = "open"
        /\ (Returned(t, "disconnect") /\ ret[t].was_connected /\ ret[t].had_client # None) =>
              ret[t].teardowns = 1
        /\ (Returned(t, "connect") /\ ret[t].was_connected) =>
              /\ ret[t].kind = "ok"
              /\ ret[t].handshakes = 0
              /\ is_connected
              /\ client = ret[t].had_client

\* After connect() and a disconnect() whose teardown raised, the next
\* disconnect() attempted the teardown again, and it raised as well.
C27_Witness ==
    /\ Returned(1, "disconnect")
    /\ ret[1].kind = "exc"
    /\ hist.calls = 3
    /\ hist.handshakes = 1
    /\ hist.teardowns = 2
    /\ hist.closed = 0


\* ------------------------------------------------------------------ C28

\* The identifier of a tool of the server registered under key.
Identifier(key, tool) == "mcp__" \o key \o "__" \o tool

\* The identifiers that get_agent_options() calls have appended to the
\* allowed tools of the options built by call i.
Appended(i) == Range(built[i].allowed_at_return) \ Range(StaticAllowedTools)

\* C28: in options built for an agent with custom tools, whatever name is
\* configured, every appended allowed-tool identifier is mcp__<key>__<tool>
\* for a key of the tool-server mapping and a tool of the server registered
\* under it, and every tool of a registered server has its identifier among
\* them: as many identifiers as registered tools.
C28_IdentifiersNameRegisteredServer ==
    \A i \in DOMAIN built :
        custom_tools # <<>> =>
            LET servers == built[i].options.mcp_servers
                registered == { <<k, tool>> \in (DOMAIN servers) \X Range(custom_tools) :
                                    tool \in Range(servers[k].tools) }
            IN  /\ DOMAIN servers # {}
                /\ \A id \in Appended(i) :
                      \E r \in registered : id = Identifier(r[1], r[2])
                /\ \A r \in registered : Identifier(r[1], r[2]) \in Appended(i)
                /\ Cardinality(Appended(i)) = Cardinality(registered)

\* Options were built twice for an agent with two tools, a configured name
\* and a configured list, which by then holds each identifier twice.
C28_Witness ==
    /\ Len(custom_tools) = 2
    /\ "name" \in DOMAIN StaticConfig
    /\ Len(built) = 2
    /\ Len(built[2].allowed_at_return) > Len(StaticAllowedTools) + Len(custom_tools)


\* ------------------------------------------------------------------ C29

\* The id the last tool call named is not a key of the store it is looked
\* up in, or the call named no such store.
NamedUnknown(call) ==
    IF call.tool = "create_project" THEN call.args.client_id \notin DOMAIN call.before.clients
    ELSE IF call.tool \in {"add_task", "track_budget"}
    THEN call.args.project_id \notin DOMAIN call.before.projects
    ELSE IF call.tool = "assign_task" THEN call.args.task_id \notin DOMAIN call.before.tasks
    ELSE IF call.tool \in {"update_progress", "set_deadline"}
    THEN IF call.args.item_type = "task" THEN call.args.item_id \notin DOMAIN call.before.tasks
         ELSE IF call.args.item_type = "project"
         THEN call.args.item_id \notin DOMAIN call.before.projects
         ELSE TRUE
    ELSE FALSE

\* The projects of the stores st that name no client of the client store,
\* or one whose project list does not hold the project's id; and the tasks
\* that name no project of the project store, or one whose task list does
\* not hold the task's id.
DanglingProjects(st) ==
    { p \in DOMAIN st.projects :
        ~ /\ st.projects[p].client_id \in DOMAIN st.clients
          /\ p \in Range(st.clients[st.projects[p].client_id].projects) }
DanglingTasks(st) ==
    { k \in DOMAIN st.tasks :
        ~ /\ st.tasks[k].project_id \in DOMAIN st.projects
          /\ k \in Range(st.projects[st.tasks[k].project_id].tasks) }

\* C29 as stated: after any sequence of tool calls, every project names a
\* client of the client store whose project list holds the project's id,
\* and every task names a project of the project store whose task list
\* holds the task's id; and a call that named an unknown client, project or
\* task has left the three stores as they were.
C29_ReferentialIntegrity ==
    /\ DanglingProjects(Stores(agency)) = {}
    /\ DanglingTasks(Stores(agency)) = {}
    /\ NamedUnknown(agency.last) => Stores(agency) = agency.last.before

\* C29: the tool calls keep referential integrity as the manager loaded it.
\* The projects and tasks that lack it are at every moment those that
\* lacked it in the stores as loaded at construction: no call breaks it
\* for a record, none repairs it, and every record a call creates has it.
\* There are none unless a save or a read of a data file has failed. A call
\* that named an unknown client, project or task has left the three stores
\* as they were.
C29_IntegrityAsLoaded ==
    /\ DanglingProjects(Stores(agency)) = DanglingProjects(agency.loaded)
    /\ DanglingTasks(Stores(agency)) = DanglingTasks(agency.loaded)
    /\ agency.faults = 0 =>
          DanglingProjects(Stores(agency)) = {} /\ DanglingTasks(Stores(agency)) = {}
    /\ NamedUnknown(agency.last) => Stores(agency) = agency.last.before

\* The manager was started again and loaded a project that lacks integrity;
\* since then a task was added to a project, and the last call, an update
\* of the progress of an id that is a project's and no task's, changed
\* nothing.
C29_Witness ==
    /\ agency.restarted
    /\ DanglingProjects(agency.loaded) # {}
    /\ DOMAIN agency.tasks # DOMAIN agency.loaded.tasks
    /\ agency.last.tool = "update_progress"
    /\ agency.last.args.item_type = "task"
    /\ agency.last.args.item_id \in DOMAIN agency.projects
    /\ agency.last.args.item_id \notin DOMAIN agency.tasks


\* ------------------------------------------------------------------ C30

\* The results are those of the controls of the checklist, one entry per
\* control in checklist order, each with one of the three statuses.
ResultsOf(results, checklist) ==
    /\ checklist # <<>>
    /\ Len(results) = Len(Controls(checklist))
    /\ \A i \in DOMAIN results :
          /\ results[i].index = i - 1
          /\ results[i].regulation = Controls(checklist)[i].reglementation
          /\ results[i].requirement = Controls(checklist)[i].exigence
          /\ results[i].status \in {"PASSED", "FAILED", "MANUAL"}

\* C30: after any sequence of load_compliance_checklist and
\* validate_all_controls calls, stored results that are not empty are the
\* results of the controls of the checklist that is loaded; so every report
\* written was generated from the results of the checklist loaded then.
C30_ResultsMatchLoadedChecklist ==
    /\ compliance.compliance_results # <<>> =>
          ResultsOf(compliance.compliance_results, compliance.current_checklist)
    /\ \A n \in DOMAIN compliance.reports :
          ResultsOf(compliance.reports[n].results, compliance.reports[n].loaded)

====
